---- MODULE Spec2Model ----
(***************************************************************************)
(* Verification model of the magnetometer calibration core:                *)
(*   - refine_rotation_matrix (src/src/fit_functions.py)                   *)
(*   - SphereSampling         (src/src/ellipsoid.py)                       *)
(*   - the fit functions      (src/src/fit_functions.py)                   *)
(*   - CalibrationDataModel   (src/src/models.py)                          *)
(*   - byte escaping, framing (src/src/serial_comms.py)                    *)
(*   - calibration_reply_helper (src/src/serial_comms.py)                  *)
(*   - Board2GUI comms tasks  (src/src/serial_comms.py, src/src/gui.py)    *)
(* Arrays keep the 0-based indices of the source.  Real numbers are        *)
(* modelled by exact integers; angles are counted in half-cell units of    *)
(* the spherical mesh.                                                     *)
(***************************************************************************)
EXTENDS Integers, Sequences, FiniteSets

VARIABLES
    gain,      \* the caller's gain array handed to refine_rotation_matrix
    rot,       \* the caller's 3x3 rotation array handed to refine_rotation_matrix
    hist,      \* one record per finished refine_rotation_matrix call
    N,         \* SphereSampling: mesh resolution given to __init__
    sampled,   \* SphereSampling.sampled: one 0/1 flag per segment
    call,      \* SphereSampling: the last method call and how it ended
    fit,       \* the last call of a fit function: its input size and its result
    grid,      \* the last call of makeSphericalMesh or makePaths and its result
    table,     \* CalibrationDataModel: its fields and its last call
    wire,      \* the last call of parse_outbound_bytes or parse_inbound_bytes
    comms,     \* Board2GUI, its worker thread and the GUI thread driving it
    link       \* a call of calibration_reply_helper

vars == <<gain, rot, hist, N, sampled, call, fit, grid, table, wire, comms, link>>

refineVars == <<gain, rot, hist>>
samplingVars == <<N, sampled, call>>
fitVars == <<fit>>
gridVars == <<grid>>
tableVars == <<table>>
codecVars == <<wire>>
commsVars == <<comms>>
linkVars == <<link>>

(***************************************************************************)
(* Bounds of the model.                                                    *)
(***************************************************************************)
MaxEntry == 1
MaxNonzero == 3
MaxGain == 3
MaxN == 3
MaxBatch == 2
MaxCoef == 1
MaxLin == 1
MaxSamples == 9
MaxDim == 3
MaxRows == 10
MaxRemove == 2
MaxBytes == 3
MaxSampleSize == 2
MaxPresses == 3
MaxField == 2
MaxReply == 6
MaxStructSize == 2

\* update_sampling fits the offset when the row count is a multiple of 10.
OffsetPeriod == 10

\* ASCII transmission control characters and the offset added to an escaped one.
ASCII_NUL == 0
ASCII_SOH == 1
ASCII_STX == 2
ASCII_ETX == 3
ASCII_EOT == 4
ASCII_ESC == 27
ASCII_LF == 10
ASCII_CR == 13
ESCAPE_OFFSET == 32

\* Board2GUI.__init__: self.read_retries = 5
read_retries == 5

\* calibration_reply_helper: while retry_number != 30
ReplyLimit == 30

(***************************************************************************)
(* refine_rotation_matrix: helpers                                         *)
(***************************************************************************)
Idx == 0..2

Abs(x) == IF x < 0 THEN -x ELSE x

\* np.where lists the matching positions in row-major order.
RowMajor3 == << <<0, 0>>, <<0, 1>>, <<0, 2>>,
                <<1, 0>>, <<1, 1>>, <<1, 2>>,
                <<2, 0>>, <<2, 1>>, <<2, 2>> >>

RowMajor2 == << <<0, 0>>, <<0, 1>>, <<1, 0>>, <<1, 1>> >>

\* rm, cm = np.where(np.abs(m) == np.abs(m).max()); rm, cm = rm[0], cm[0]
FirstMax(m, order) ==
    LET mag(k) == Abs(m[order[k][1]][order[k][2]])
        mx == CHOOSE v \in {mag(k) : k \in 1..Len(order)} :
                  \A k \in 1..Len(order) : mag(k) <= v
        first == CHOOSE k \in 1..Len(order) :
                  /\ mag(k) = mx
                  /\ \A j \in 1..(k - 1) : mag(j) # mx
    IN  order[first]

\* rot[:, [a, b]] = rot[:, [b, a]]   (the right-hand side is a copy)
SwapColumns(m, a, b) ==
    [r \in DOMAIN m |->
        [c \in DOMAIN m[r] |->
            IF c = a THEN m[r][b] ELSE IF c = b THEN m[r][a] ELSE m[r][c]]]

\* gain[a], gain[b] = gain[b], gain[a]
SwapGain(g, a, b) ==
    [k \in DOMAIN g |-> IF k = a THEN g[b] ELSE IF k = b THEN g[a] ELSE g[k]]

\* rot[:, c] = -rot[:, c]
NegateColumn(m, c) ==
    [r \in DOMAIN m |-> [k \in DOMAIN m[r] |-> IF k = c THEN -m[r][k] ELSE m[r][k]]]

(***************************************************************************)
(* refine_rotation_matrix, first block: global maximum onto the diagonal.  *)
(***************************************************************************)
ReorderColumns(g, m) ==
    LET pos == FirstMax(m, RowMajor3)
        rm == pos[1]
        cm == pos[2]
    IN  IF rm # cm
        THEN [gain |-> SwapGain(g, cm, rm), rot |-> SwapColumns(m, cm, rm), rm |-> rm]
        ELSE [gain |-> g, rot |-> m, rm |-> rm]

\* i0, i1: the two axes left over once row rm is settled
Remaining(rm) ==
    IF rm = 0 THEN <<1, 2>> ELSE IF rm = 1 THEN <<0, 2>> ELSE <<0, 1>>

(***************************************************************************)
(* Second block: the 2x2 matrix of the remaining axes.  Only its four      *)
(* entries are written back into the 3x3 array.                            *)
(***************************************************************************)
ReorderSubmatrixNoGainSwap(g, m, rm) ==
    LET i0 == Remaining(rm)[1]
        i1 == Remaining(rm)[2]
        ix == [k \in 0..1 |-> IF k = 0 THEN i0 ELSE i1]
        aux_rot == [r \in 0..1 |-> [c \in 0..1 |-> m[ix[r]][ix[c]]]]
        pos == FirstMax(aux_rot, RowMajor2)
        swapped == SwapColumns(aux_rot, 0, 1)
    IN  IF pos[1] # pos[2]
        THEN [gain |-> g,
              rot |-> [r \in Idx |-> [c \in Idx |->
                          IF r \in {i0, i1} /\ c \in {i0, i1}
                          THEN swapped[IF r = i0 THEN 0 ELSE 1][IF c = i0 THEN 0 ELSE 1]
                          ELSE m[r][c]]]]
        ELSE [gain |-> g, rot |-> m]

ReorderSubmatrix(g, m, rm) ==
    LET i0 == Remaining(rm)[1]
        i1 == Remaining(rm)[2]
        ix == [k \in 0..1 |-> IF k = 0 THEN i0 ELSE i1]
        aux_rot == [r \in 0..1 |-> [c \in 0..1 |-> m[ix[r]][ix[c]]]]
        pos == FirstMax(aux_rot, RowMajor2)
        swapped == SwapColumns(aux_rot, 0, 1)
    IN  IF pos[1] # pos[2]
        THEN [gain |-> SwapGain(g, i0, i1),
              rot |-> [r \in Idx |-> [c \in Idx |->
                          IF r \in {i0, i1} /\ c \in {i0, i1}
                          THEN swapped[IF r = i0 THEN 0 ELSE 1][IF c = i0 THEN 0 ELSE 1]
                          ELSE m[r][c]]]]
        ELSE [gain |-> g, rot |-> m]

(***************************************************************************)
(* Third block: flip the sign of each column whose diagonal is negative.   *)
(***************************************************************************)
FlipColumnSignsSkipLast(m) ==
    LET m0 == IF m[0][0] < 0 THEN NegateColumn(m, 0) ELSE m
        m1 == IF m0[1][1] < 0 THEN NegateColumn(m0, 1) ELSE m0
    IN  m1

FlipColumnSigns(m) ==
    LET m0 == IF m[0][0] < 0 THEN NegateColumn(m, 0) ELSE m
        m1 == IF m0[1][1] < 0 THEN NegateColumn(m0, 1) ELSE m0
        m2 == IF m1[2][2] < 0 THEN NegateColumn(m1, 2) ELSE m1
    IN  m2

\* The whole function; mid is the pair of arrays as the third block finds them.
refine_rotation_matrix(g, m) ==
    LET s1 == ReorderColumns(g, m)
        s2 == ReorderSubmatrix(s1.gain, s1.rot, s1.rm)
    IN  [gain |-> s2.gain,
         rot |-> FlipColumnSigns(s2.rot),
         mid |-> [gain |-> s2.gain, rot |-> s2.rot]]

(***************************************************************************)
(* Inputs of refine_rotation_matrix.                                       *)
(***************************************************************************)
Positions == Idx \X Idx

NonzeroEntries == (-MaxEntry..MaxEntry) \ {0}

Supports == {S \in SUBSET Positions : Cardinality(S) <= MaxNonzero}

\* The matrix with entries f on the positions S and 0 elsewhere: every matrix
\* with at most MaxNonzero entries, each of magnitude <= MaxEntry, is one.
MatrixOf(S, f) ==
    [r \in Idx |-> [c \in Idx |-> IF <<r, c>> \in S THEN f[<<r, c>>] ELSE 0]]

\* A 3x3 array written row by row, as np.array([[..], [..], [..]]).
Mat(a, b, c) ==
    [r \in Idx |-> [k \in Idx |->
        (IF r = 0 THEN a ELSE IF r = 1 THEN b ELSE c)[k + 1]]]

\* The rotation arrays of the unit tests, in hundredths.
TestRotations ==
    { Mat(<<100, 0, 0>>, <<0, 100, 0>>, <<0, 0, 100>>),
      Mat(<<90, 1, 2>>, <<3, 80, 4>>, <<5, 6, 70>>),
      Mat(<<0, 0, 100>>, <<100, 0, 0>>, <<0, 100, 0>>),
      Mat(<<100, 0, 0>>, <<0, 0, 100>>, <<0, 100, 0>>),
      Mat(<<3, 90, 4>>, <<80, 1, 2>>, <<5, 6, 70>>),
      Mat(<<3, 80, 4>>, <<90, 1, 2>>, <<5, 6, 70>>),
      Mat(<<4, 3, 80>>, <<2, 70, 1>>, <<90, 5, 6>>),
      Mat(<<90, 4, 3>>, <<1, 2, 80>>, <<6, 70, 5>>),
      Mat(<<4, 3, 80>>, <<2, 90, 1>>, <<70, 5, 6>>),
      Mat(<<3, 80, 4>>, <<70, 1, 2>>, <<5, 6, 90>>),
      Mat(<<-90, 10, 10>>, <<10, -80, 10>>, <<10, 10, -70>>) }

\* Dense orthonormal arrays as np.linalg.eig hands them over (eigenvectors in
\* any order and with any sign), in thirds: the rotation with rows (2,-1,2),
\* (2,2,-1), (-1,2,2) with its columns reordered and negated in every way.
EigenRotations ==
    LET base == Mat(<<2, -1, 2>>, <<2, 2, -1>>, <<-1, 2, 2>>)
        perms == {p \in [Idx -> Idx] : \A a, b \in Idx : p[a] = p[b] => a = b}
    IN  {[r \in Idx |-> [c \in Idx |-> sg[c] * base[r][p[c]]]] :
            p \in perms, sg \in [Idx -> {-1, 1}]}

\* refine_rotation_matrix moves gain entries and never reads their values, so
\* pairwise distinct gains show every movement.
GainVectors == {g \in [Idx -> 1..MaxGain] : g[0] < g[1] /\ g[1] < g[2]}

InitRefine ==
    /\ gain \in GainVectors
    /\ \/ rot \in TestRotations \cup EigenRotations
       \/ \E S \in Supports : \E f \in [S -> NonzeroEntries] : rot = MatrixOf(S, f)
    /\ hist = <<>>

\* semi_axes, rotation = refine_rotation_matrix(semi_axes, rotation): the arrays
\* are changed in place and the same two arrays are returned.
CallRefine ==
    /\ Len(hist) < 2
    /\ LET res == refine_rotation_matrix(gain, rot)
       IN  /\ gain' = res.gain
           /\ rot' = res.rot
           /\ hist' = Append(hist, [before |-> [gain |-> gain, rot |-> rot],
                                    mid |-> res.mid,
                                    ret |-> [gain |-> res.gain, rot |-> res.rot]])
    /\ UNCHANGED <<samplingVars, fitVars, gridVars, tableVars, codecVars, commsVars, linkVars>>

(***************************************************************************)
(* ellipsoid.py: spherical mesh and its segments.  Angles are integers:    *)
(* Pi stands for np.pi and is chosen so that every mesh node and every     *)
(* segment centroid of a mesh with N <= MaxN is a whole number.            *)
(***************************************************************************)
RECURSIVE Factorial(_)
Factorial(n) == IF n <= 1 THEN 1 ELSE n * Factorial(n - 1)

Pi == 2 * Factorial(MaxN - 1)

\* np.linspace(a, b, n): n evenly spaced values from a to b inclusive.
Linspace(a, b, n) ==
    [k \in 0..(n - 1) |-> IF n = 1 THEN a ELSE a + (k * (b - a)) \div (n - 1)]

\* np.meshgrid(polar_angle, azimuth): row i, column j holds
\* (polar_angle[j], azimuth[i]).  assert N > 0 comes first.
makeSphericalMeshSwapped(n) ==
    LET polar_angle == Linspace(0, Pi, n)
        azimuth == Linspace(-1 * Pi, Pi, n)
    IN  IF ~(n > 0)
        THEN [outcome |-> "AssertionError", polar_angle |-> <<>>, azimuth |-> <<>>]
        ELSE [outcome |-> "returned",
              polar_angle |-> [i \in 0..(n - 1) |-> [j \in 0..(n - 1) |-> polar_angle[i]]],
              azimuth |-> [i \in 0..(n - 1) |-> [j \in 0..(n - 1) |-> azimuth[j]]]]

makeSphericalMesh(n) ==
    LET polar_angle == Linspace(0, Pi, n)
        azimuth == Linspace(-1 * Pi, Pi, n)
    IN  IF ~(n > 0)
        THEN [outcome |-> "AssertionError", polar_angle |-> <<>>, azimuth |-> <<>>]
        ELSE [outcome |-> "returned",
              polar_angle |-> [i \in 0..(n - 1) |-> [j \in 0..(n - 1) |-> polar_angle[j]]],
              azimuth |-> [i \in 0..(n - 1) |-> [j \in 0..(n - 1) |-> azimuth[i]]]]

\* w.shape of a two-dimensional array with at least one row
Shape(w) == <<Cardinality(DOMAIN w), Cardinality(DOMAIN w[0])>>

\* w.shape[0] of an n x n array
Side(w) == Cardinality(DOMAIN w)

\* The Path of grid square (i, j): its four vertices in the order of the source.
PathOfColumnFirst(w, q, i, j) ==
    << <<w[i][j], q[i][j]>>,
       <<w[i + 1][j], q[i + 1][j]>>,
       <<w[i + 1][j + 1], q[i + 1][j + 1]>>,
       <<w[i][j + 1], q[i][j + 1]>> >>

PathOf(w, q, i, j) ==
    << <<w[i][j], q[i][j]>>,
       <<w[i][j + 1], q[i][j + 1]>>,
       <<w[i + 1][j + 1], q[i + 1][j + 1]>>,
       <<w[i + 1][j], q[i + 1][j]>> >>

\* The two asserts, then paths.append(p) in the loops over i and j: list
\* index i * (n - 1) + j.
makePathsDropLast(w, q) ==
    LET m == Side(w) - 1
    IN  IF Shape(w) # Shape(q) \/ Shape(w)[1] # Shape(w)[2]
        THEN [outcome |-> "AssertionError", paths |-> <<>>]
        ELSE [outcome |-> "returned",
              paths |-> [k \in 0..(m * m - 2) |-> PathOf(w, q, k \div m, k % m)]]

makePaths(w, q) ==
    LET m == Side(w) - 1
    IN  IF Shape(w) # Shape(q) \/ Shape(w)[1] # Shape(w)[2]
        THEN [outcome |-> "AssertionError", paths |-> <<>>]
        ELSE [outcome |-> "returned",
              paths |-> [k \in 0..(m * m - 1) |-> PathOf(w, q, k \div m, k % m)]]

\* self.segments of a tracker built with resolution n, for every n of the model.
SegmentsByN ==
    [n \in 1..MaxN |->
        LET mesh == makeSphericalMesh(n)
        IN  makePaths(mesh.polar_angle, mesh.azimuth).paths]

Segments(n) == SegmentsByN[n]

Min4(a, b, c, d) ==
    CHOOSE v \in {a, b, c, d} : \A u \in {a, b, c, d} : v <= u

Max4(a, b, c, d) ==
    CHOOSE v \in {a, b, c, d} : \A u \in {a, b, c, d} : v >= u

\* segment.contains_point(point) for the axis-parallel rectangles a mesh
\* gives.  matplotlib leaves the answer for a point on the boundary of the
\* path open, so either answer is possible there.
ContainsPoint(segment, point) ==
    LET x0 == Min4(segment[1][1], segment[2][1], segment[3][1], segment[4][1])
        x1 == Max4(segment[1][1], segment[2][1], segment[3][1], segment[4][1])
        y0 == Min4(segment[1][2], segment[2][2], segment[3][2], segment[4][2])
        y1 == Max4(segment[1][2], segment[2][2], segment[3][2], segment[4][2])
    IN  IF x0 < point[1] /\ point[1] < x1 /\ y0 < point[2] /\ point[2] < y1
        THEN {TRUE}
        ELSE IF x0 <= point[1] /\ point[1] <= x1 /\ y0 <= point[2] /\ point[2] <= y1
             THEN {TRUE, FALSE}
             ELSE {FALSE}

\* The answers contains_point can give for one point, segment by segment.
ContainsAnswers(segments, point) ==
    LET surely == {i \in DOMAIN segments : ContainsPoint(segments[i], point) = {TRUE}}
        maybe == {i \in DOMAIN segments : ContainsPoint(segments[i], point) = {TRUE, FALSE}}
    IN  {[i \in DOMAIN segments |-> i \in surely \cup yes] : yes \in SUBSET maybe}

(***************************************************************************)
(* SphereSampling                                                          *)
(***************************************************************************)
\* self.sampled = np.zeros(len(self.segments))
NewSampled(n) == [k \in DOMAIN Segments(n) |-> 0]

\* The loop of update_single_point once contains_point has answered: the
\* first containing segment is marked; without one SamplingError is raised.
ScanSegmentsSwallow(flags, inside) ==
    IF \E i \in DOMAIN flags : inside[i]
    THEN LET first == CHOOSE i \in DOMAIN flags :
                          inside[i] /\ \A j \in DOMAIN flags : j < i => ~inside[j]
         IN  [sampled |-> [flags EXCEPT ![first] = 1], raised |-> FALSE]
    ELSE [sampled |-> flags, raised |-> FALSE]

ScanSegmentsToggle(flags, inside) ==
    IF \E i \in DOMAIN flags : inside[i]
    THEN LET first == CHOOSE i \in DOMAIN flags :
                          inside[i] /\ \A j \in DOMAIN flags : j < i => ~inside[j]
         IN  [sampled |-> [flags EXCEPT ![first] = 1 - flags[first]], raised |-> FALSE]
    ELSE [sampled |-> flags, raised |-> TRUE]

ScanSegmentsMarkOnFailure(flags, inside) ==
    IF \E i \in DOMAIN flags : inside[i]
    THEN LET first == CHOOSE i \in DOMAIN flags :
                          inside[i] /\ \A j \in DOMAIN flags : j < i => ~inside[j]
         IN  [sampled |-> [flags EXCEPT ![first] = 1], raised |-> FALSE]
    ELSE [sampled |-> [k \in DOMAIN flags |-> IF k = 0 THEN 1 ELSE flags[k]],
          raised |-> TRUE]

ScanSegments(flags, inside) ==
    IF \E i \in DOMAIN flags : inside[i]
    THEN LET first == CHOOSE i \in DOMAIN flags :
                          inside[i] /\ \A j \in DOMAIN flags : j < i => ~inside[j]
         IN  [sampled |-> [flags EXCEPT ![first] = 1], raised |-> FALSE]
    ELSE [sampled |-> flags, raised |-> TRUE]

\* Every way update_single_point(point) can end from the flags given.
update_single_point(n, flags, point) ==
    {ScanSegments(flags, inside) : inside \in ContainsAnswers(Segments(n), point)}

updateFirstOnly(n, flags, points) ==
    IF points = <<>>
    THEN {[sampled |-> flags, raised |-> FALSE]}
    ELSE update_single_point(n, flags, Head(points))

\* update(points): update_single_point for each point in turn; SamplingError
\* is not caught, so the first failing point ends the call.
RECURSIVE update(_, _, _)
update(n, flags, points) ==
    IF points = <<>>
    THEN {[sampled |-> flags, raised |-> FALSE]}
    ELSE UNION {IF o.raised THEN {o} ELSE update(n, o.sampled, Tail(points)) :
                   o \in update_single_point(n, flags, Head(points))}

\* int(np.count_nonzero(self.sampled))
get_count(flags) == Cardinality({i \in DOMAIN flags : flags[i] # 0})

\* float(np.count_nonzero(self.sampled) / len(self.sampled)), kept as the
\* fraction num / den; the division fails on an empty array.
get_percentage(flags) ==
    IF Cardinality(DOMAIN flags) = 0
    THEN [error |-> "ZeroDivisionError"]
    ELSE [error |-> "none", num |-> get_count(flags), den |-> Cardinality(DOMAIN flags)]

(***************************************************************************)
(* Points handed to the tracker.                                           *)
(***************************************************************************)
\* (polar_angle, azimuth) pairs on the integer grid, one step beyond
\* [0, Pi] x [-Pi, Pi] on every side.
Points == ((-1)..(Pi + 1)) \X ((-Pi - 1)..(Pi + 1))

InDomain(point) ==
    /\ 0 <= point[1] /\ point[1] <= Pi
    /\ -Pi <= point[2] /\ point[2] <= Pi

Centroid(segment) ==
    << (segment[1][1] + segment[2][1] + segment[3][1] + segment[4][1]) \div 4,
       (segment[1][2] + segment[2][2] + segment[3][2] + segment[4][2]) \div 4 >>

\* One point per segment, the centroid of each, in list order.
CentroidList(n) ==
    LET segs == Segments(n)
    IN  [k \in 1..Cardinality(DOMAIN segs) |-> Centroid(segs[k - 1])]

Reverse(seq) == [k \in 1..Len(seq) |-> seq[Len(seq) + 1 - k]]

\* Points of the short lists given to update: the centroids of the first and
\* of the last segment, the pole (a boundary point) and one point beyond
\* polar angle Pi.
BatchPoints(n) ==
    {CentroidList(n)[k] : k \in {1, Len(CentroidList(n))} \cap DOMAIN CentroidList(n)}
        \cup {<<0, 0>>, <<Pi + 1, 0>>}

Batches(n) ==
    UNION {[1..len -> BatchPoints(n)] : len \in 0..MaxBatch}
        \cup {CentroidList(n), Reverse(CentroidList(n))}

BatchesByN == [n \in 1..MaxN |-> Batches(n)]

IsCentroidPerSegment(n, points) ==
    /\ Len(points) = Len(CentroidList(n))
    /\ \A k \in 1..Len(CentroidList(n)) :
           \E j \in 1..Len(points) : points[j] = CentroidList(n)[k]

\* SphereSampling(N): __init__ asserts N > 0 through makeSphericalMesh.
InitSampling ==
    /\ N \in 1..MaxN
    /\ sampled = NewSampled(N)
    /\ call = [op |-> "init", raised |-> FALSE, outside |-> FALSE, centroids |-> FALSE]

UpdateSinglePoint ==
    /\ \E point \in Points :
         \E o \in update_single_point(N, sampled, point) :
            /\ sampled' = o.sampled
            /\ call' = [op |-> "update_single_point", raised |-> o.raised,
                        outside |-> ~InDomain(point), centroids |-> FALSE]
    /\ UNCHANGED N
    /\ UNCHANGED <<refineVars, fitVars, gridVars, tableVars, codecVars, commsVars, linkVars>>

Update ==
    /\ \E points \in BatchesByN[N] :
         \E o \in update(N, sampled, points) :
            /\ sampled' = o.sampled
            /\ call' = [op |-> "update", raised |-> o.raised,
                        outside |-> \E k \in 1..Len(points) : ~InDomain(points[k]),
                        centroids |-> IsCentroidPerSegment(N, points)]
    /\ UNCHANGED N
    /\ UNCHANGED <<refineVars, fitVars, gridVars, tableVars, codecVars, commsVars, linkVars>>

NextSampling == UpdateSinglePoint \/ Update

(***************************************************************************)
(* fit_functions.py: the fit strategies.  The double precision values of   *)
(* the source are modelled by exact fractions, extended with the special   *)
(* values of floating point: k is "fin" (the fraction n / d, d > 0),       *)
(* "pinf", "ninf" or "nan".  numpy scalars do not raise on a division by   *)
(* zero or on the square root of a negative number: they give inf or nan.  *)
(***************************************************************************)
Sign(x) == IF x > 0 THEN 1 ELSE IF x < 0 THEN -1 ELSE 0

RECURSIVE Gcd(_, _)
Gcd(x, y) == IF y = 0 THEN x ELSE Gcd(y, x % y)

\* The fraction n / d in lowest terms with a positive denominator (d # 0).
Fin(n, d) ==
    LET q == Gcd(Abs(n), Abs(d))
    IN  [k |-> "fin", n |-> (Sign(d) * n) \div q, d |-> Abs(d) \div q]

NaN == [k |-> "nan", n |-> 0, d |-> 1]
PInf == [k |-> "pinf", n |-> 0, d |-> 1]
NInf == [k |-> "ninf", n |-> 0, d |-> 1]

IsFinite(x) == x.k = "fin"

\* -x
FNeg(x) ==
    IF x.k = "fin" THEN Fin(-x.n, x.d)
    ELSE IF x.k = "pinf" THEN NInf
    ELSE IF x.k = "ninf" THEN PInf
    ELSE NaN

\* x + y
FAdd(x, y) ==
    IF x.k = "nan" \/ y.k = "nan" THEN NaN
    ELSE IF x.k = "fin" /\ y.k = "fin" THEN Fin(x.n * y.d + y.n * x.d, x.d * y.d)
    ELSE IF x.k = "fin" THEN y
    ELSE IF y.k = "fin" THEN x
    ELSE IF x.k = y.k THEN x
    ELSE NaN

\* x * y
FMul(x, y) ==
    IF x.k = "nan" \/ y.k = "nan" THEN NaN
    ELSE IF x.k = "fin" /\ y.k = "fin" THEN Fin(x.n * y.n, x.d * y.d)
    ELSE LET sx == IF x.k = "fin" THEN Sign(x.n) ELSE IF x.k = "pinf" THEN 1 ELSE -1
             sy == IF y.k = "fin" THEN Sign(y.n) ELSE IF y.k = "pinf" THEN 1 ELSE -1
         IN  IF sx * sy = 0 THEN NaN ELSE IF sx * sy > 0 THEN PInf ELSE NInf

\* x / y; a zero divisor gives an infinity with the sign of x, or nan for 0 / 0.
FDiv(x, y) ==
    IF x.k = "nan" \/ y.k = "nan" THEN NaN
    ELSE IF x.k = "fin" /\ y.k = "fin"
         THEN IF y.n # 0 THEN Fin(x.n * y.d, x.d * y.n)
              ELSE IF x.n > 0 THEN PInf ELSE IF x.n < 0 THEN NInf ELSE NaN
    ELSE IF x.k = "fin" THEN Fin(0, 1)
    ELSE IF y.k = "fin"
         THEN IF (x.k = "pinf") = (y.n >= 0) THEN PInf ELSE NInf
    ELSE NaN

\* np.sqrt(x): the root of a fraction is kept as [k |-> "root", n, d], the
\* non-negative number whose square is n / d.
FSqrt(x) ==
    IF x.k = "fin" /\ x.n >= 0 THEN [k |-> "root", n |-> x.n, d |-> x.d]
    ELSE IF x.k = "pinf" THEN PInf
    ELSE NaN

\* 1 / r for r as np.sqrt returns it.
FRecipRoot(r) ==
    IF r.k = "root"
    THEN IF r.n = 0 THEN PInf ELSE [k |-> "root", n |-> r.d, d |-> r.n]
    ELSE IF r.k = "pinf" THEN [k |-> "root", n |-> 0, d |-> 1]
    ELSE NaN

\* A strictly positive finite number, as np.sqrt or 1 / np.sqrt returns it.
IsPositiveFinite(r) == r.k = "root" /\ r.n > 0

Whole(x) == Fin(x, 1)

\* np.diag(np.ones(3)), and the rotation every axis-aligned fit returns
no_rotation == [r \in Idx |-> [c \in Idx |-> IF r = c THEN 1 ELSE 0]]

(***************************************************************************)
(* What scipy.optimize.fmin_bfgs can hand back.  The optimizer is outside  *)
(* the repository; its result is any vector of the right length, here      *)
(* with quadratic coefficients in -MaxCoef..MaxCoef and linear             *)
(* coefficients in 0..MaxLin.                                              *)
(***************************************************************************)
QuadCoefs == (-MaxCoef)..MaxCoef

LinCoefs == 0..MaxLin

\* The numbers of samples handed to a fit (the length of x, y and z).
SampleCounts == 0..MaxSamples

\* fit_sphere from the optimizer's answer on: offset, G, gain, soft_iron,
\* semi_axes and no_rotation, for any four numbers a, g, h, i.
SphereCalibrationNoOne(a, g, h, i) ==
    LET lin == [k \in Idx |-> IF k = 0 THEN g ELSE IF k = 1 THEN h ELSE i]
        offset == [k \in Idx |-> FMul(Whole(-1), FDiv(lin[k], a))]
        G == FAdd(FAdd(FDiv(FMul(g, g), a), FDiv(FMul(h, h), a)), FDiv(FMul(i, i), a))
        gainv == [k \in Idx |-> FSqrt(FDiv(a, G))]
    IN  [soft_iron |-> [diag |-> gainv, rot |-> no_rotation],
         offset |-> offset,
         semi_axes |-> [k \in Idx |-> FRecipRoot(gainv[k])],
         rotation |-> no_rotation]

SphereCalibration(a, g, h, i) ==
    LET lin == [k \in Idx |-> IF k = 0 THEN g ELSE IF k = 1 THEN h ELSE i]
        offset == [k \in Idx |-> FMul(Whole(-1), FDiv(lin[k], a))]
        G == FAdd(FAdd(FAdd(Whole(1), FDiv(FMul(g, g), a)), FDiv(FMul(h, h), a)),
                  FDiv(FMul(i, i), a))
        gainv == [k \in Idx |-> FSqrt(FDiv(a, G))]
    IN  [soft_iron |-> [diag |-> gainv, rot |-> no_rotation],
         offset |-> offset,
         semi_axes |-> [k \in Idx |-> FRecipRoot(gainv[k])],
         rotation |-> no_rotation]

\* fit_sphere once the optimizer has returned the whole numbers a, g, h, i.
fit_sphere(a, g, h, i) ==
    LET cal == SphereCalibration(Whole(a), Whole(g), Whole(h), Whole(i))
    IN  [outcome |-> "returned",
         params |-> <<a, g, h, i>>,
         A_4 |-> <<>>,
         soft_iron |-> cal.soft_iron,
         offset |-> cal.offset,
         semi_axes |-> cal.semi_axes,
         rotation |-> cal.rotation]

\* fit_ellipsoid_nonrotated once the optimizer has returned a, b, c, g, h, i.
fit_ellipsoid_nonrotated(a, b, c, g, h, i) ==
    LET offset == [k \in Idx |->
                      FMul(Whole(-1),
                           IF k = 0 THEN FDiv(Whole(g), Whole(a))
                           ELSE IF k = 1 THEN FDiv(Whole(h), Whole(b))
                           ELSE FDiv(Whole(i), Whole(c)))]
        G == FAdd(FAdd(FAdd(Whole(1), FDiv(Whole(g * g), Whole(a))),
                       FDiv(Whole(h * h), Whole(b))),
                  FDiv(Whole(i * i), Whole(c)))
        gainv == [k \in Idx |->
                     FSqrt(FDiv(Whole(IF k = 0 THEN a ELSE IF k = 1 THEN b ELSE c), G))]
    IN  [outcome |-> "returned",
         params |-> <<a, b, c, g, h, i>>,
         A_4 |-> <<>>,
         soft_iron |-> [diag |-> gainv, rot |-> no_rotation],
         offset |-> offset,
         semi_axes |-> [k \in Idx |-> FRecipRoot(gainv[k])],
         rotation |-> no_rotation]

(***************************************************************************)
(* The rotated fits: from the nine quadric coefficients to the             *)
(* calibration.  Matrices keep the 0-based indices of numpy.                *)
(***************************************************************************)
Idx4 == 0..3

FSub(x, y) == FAdd(x, FNeg(y))

\* np.array([r0, r1, r2, r3]) of four rows of four entries
Mat4(r0, r1, r2, r3) ==
    [r \in Idx4 |-> [c \in Idx4 |->
        (IF r = 0 THEN r0 ELSE IF r = 1 THEN r1 ELSE IF r = 2 THEN r2 ELSE r3)[c + 1]]]

\* A_4 = np.array([[a, d, e, g], [d, b, f, g], [e, f, c, i], [g, h, i, -1]])
A_4(a, b, c, d, e, f, g, h, i) ==
    Mat4(<<a, d, e, g>>, <<d, b, f, g>>, <<e, f, c, i>>, <<g, h, i, Whole(-1)>>)

\* m[0:3].transpose()[0:3].transpose(): the leading 3x3 block
Slice3(m) == [r \in Idx |-> [c \in Idx |-> m[r][c]]]

Transpose(m) == [r \in DOMAIN m |-> [c \in DOMAIN m |-> m[c][r]]]

\* np.matmul of two 4x4 arrays
MatMul4(x, y) ==
    [r \in Idx4 |-> [c \in Idx4 |->
        FAdd(FAdd(FAdd(FMul(x[r][0], y[0][c]), FMul(x[r][1], y[1][c])),
                  FMul(x[r][2], y[2][c])),
             FMul(x[r][3], y[3][c]))]]

\* The signed cofactor of entry (r, c) of a 3x3 array
Cofactor(m, r, c) ==
    LET r1 == (r + 1) % 3
        r2 == (r + 2) % 3
        c1 == (c + 1) % 3
        c2 == (c + 2) % 3
    IN  FSub(FMul(m[r1][c1], m[r2][c2]), FMul(m[r1][c2], m[r2][c1]))

Det3(m) ==
    FAdd(FAdd(FMul(m[0][0], Cofactor(m, 0, 0)), FMul(m[0][1], Cofactor(m, 0, 1))),
         FMul(m[0][2], Cofactor(m, 0, 2)))

AllFinite(m) == \A r \in DOMAIN m : \A c \in DOMAIN m[r] : IsFinite(m[r][c])

\* np.linalg.inv(m) of a finite 3x3 array with a non-zero determinant
Inv3(m) == [r \in Idx |-> [c \in Idx |-> FDiv(Cofactor(m, c, r), Det3(m))]]

\* np.matmul(m, v) of a 3x3 array and a 3-vector
MatVec3(m, v) ==
    [r \in Idx |-> FAdd(FAdd(FMul(m[r][0], v[0]), FMul(m[r][1], v[1])),
                        FMul(m[r][2], v[2]))]

IsDiagonal(m) == \A r, c \in Idx : r # c => m[r][c] = Whole(0)

\* np.linalg.eig(m) of a finite symmetric 3x3 array: eigenvalues w and unit
\* eigenvectors, vectors[:, k] belonging to w[k].  A diagonal array gives its
\* diagonal and the unit vectors.  Otherwise the order and the signs of the
\* eigenvectors are LAPACK's choice: every array of EigenRotations (kept in
\* thirds) whose columns are eigenvectors can be the answer.
Eig(m) ==
    IF IsDiagonal(m)
    THEN {[w |-> [k \in Idx |-> m[k][k]], vectors |-> no_rotation]}
    ELSE {[w |-> [k \in Idx |->
                     FDiv(MatVec3(m, [r \in Idx |-> Whole(V[r][k])])[
                              CHOOSE r \in Idx : V[r][k] # 0],
                          Whole(V[CHOOSE r \in Idx : V[r][k] # 0][k]))],
           vectors |-> V] :
             V \in {U \in EigenRotations :
                      \A k \in Idx :
                          LET v == [r \in Idx |-> Whole(U[r][k])]
                              mv == MatVec3(m, v)
                          IN  \A r, s \in Idx :
                                  FMul(mv[r], v[s]) = FMul(mv[s], v[r])}}

LinAlgError(params, a4) ==
    [outcome |-> "LinAlgError", params |-> params, A_4 |-> a4,
     soft_iron |-> <<>>, offset |-> <<>>, semi_axes |-> <<>>, rotation |-> <<>>]

\* The common part of fit_ellipsoid_rotated and fit_ellipsoid_rotated_alt:
\* everything after the coefficients a..i are known.  np.linalg.inv raises
\* LinAlgError on a singular array, np.linalg.eig on an array that holds inf
\* or nan.
quadric_to_calibration(params, a, b, c, d, e, f, g, h, i) ==
    LET v_ghi == [k \in Idx |-> IF k = 0 THEN g ELSE IF k = 1 THEN h ELSE i]
        a4 == A_4(a, b, c, d, e, f, g, h, i)
        a3 == Slice3(a4)
    IN  IF ~AllFinite(a3) \/ Det3(a3) = Whole(0)
        THEN {LinAlgError(params, a4)}
        ELSE
          LET inv == Inv3(a3)
              offset == [k \in Idx |-> FMul(Whole(-1), MatVec3(inv, v_ghi)[k])]
              T == Mat4(<<Whole(1), Whole(0), Whole(0), Whole(0)>>,
                        <<Whole(0), Whole(1), Whole(0), Whole(0)>>,
                        <<Whole(0), Whole(0), Whole(1), Whole(0)>>,
                        <<offset[0], offset[1], offset[2], Whole(1)>>)
              B_4 == MatMul4(MatMul4(T, a4), Transpose(T))
              B_3 == [r \in Idx |-> [k \in Idx |->
                         FDiv(B_4[r][k], FMul(Whole(-1), B_4[3][3]))]]
          IN  IF ~AllFinite(B_3)
              THEN {LinAlgError(params, a4)}
              ELSE {LET semi == [k \in Idx |-> FSqrt(FDiv(Whole(1), ev.w[k]))]
                        refined == refine_rotation_matrix(semi, Transpose(ev.vectors))
                    IN  [outcome |-> "returned",
                         params |-> params,
                         A_4 |-> a4,
                         soft_iron |-> [diag |-> [k \in Idx |-> FRecipRoot(refined.gain[k])],
                                        rot |-> refined.rot],
                         offset |-> offset,
                         semi_axes |-> refined.gain,
                         rotation |-> refined.rot] :
                    ev \in Eig(B_3)}

\* fit_ellipsoid_rotated once the optimizer has returned the nine coefficients
fit_ellipsoid_rotated(p) ==
    quadric_to_calibration(p, Whole(p[1]), Whole(p[2]), Whole(p[3]), Whole(p[4]), Whole(p[5]),
                           Whole(p[6]), Whole(p[7]), Whole(p[8]), Whole(p[9]))

\* fit_ellipsoid_rotated_alt once the optimizer has returned u:
\* vd = S . [-1/3, u], v = -vd[0:9] / vd[9], a..i = v
fit_ellipsoid_rotated_alt(u) ==
    LET vd == << Whole(-1 + u[1] + u[2]),
                 Whole(-1 + u[1] - 2 * u[2]),
                 Whole(-1 - 2 * u[1] + u[2]),
                 Whole(2 * u[3]), Whole(u[4]), Whole(u[5]), Whole(u[6]), Whole(u[7]), Whole(u[8]),
                 Whole(u[9]) >>
        v == [k \in 1..9 |-> FDiv(FMul(Whole(-1), vd[k]), vd[10])]
    IN  quadric_to_calibration(u, v[1], v[2], v[3], v[4], v[5], v[6], v[7], v[8], v[9])

(***************************************************************************)
(* The coefficient vectors of the model, and each fit applied to them.     *)
(***************************************************************************)
SphereParams == QuadCoefs \X LinCoefs \X LinCoefs \X LinCoefs

NonrotatedParams ==
    QuadCoefs \X QuadCoefs \X QuadCoefs \X LinCoefs \X LinCoefs \X LinCoefs

\* The quadratic part base . diag(mu) . base^T of an ellipsoid whose axes are
\* the columns of the rotation with rows (2,-1,2), (2,2,-1), (-1,2,2) (in
\* thirds): entry (r, c).
DenseQuadratic(mu, r, c) ==
    LET base == Mat(<<2, -1, 2>>, <<2, 2, -1>>, <<-1, 2, 2>>)
    IN  mu[1] * base[r][0] * base[c][0] + mu[2] * base[r][1] * base[c][1]
            + mu[3] * base[r][2] * base[c][2]

\* Axis-aligned quadrics (d = e = f = 0) and rotated ones.
RotatedParams ==
    {<<q[1], q[2], q[3], 0, 0, 0, l[1], l[2], l[3]>> :
        q \in QuadCoefs \X QuadCoefs \X QuadCoefs, l \in LinCoefs \X LinCoefs \X LinCoefs}
    \cup
    {<<DenseQuadratic(mu, 0, 0), DenseQuadratic(mu, 1, 1), DenseQuadratic(mu, 2, 2),
       DenseQuadratic(mu, 0, 1), DenseQuadratic(mu, 0, 2), DenseQuadratic(mu, 1, 2),
       l[1], l[2], l[3]>> :
        mu \in QuadCoefs \X QuadCoefs \X QuadCoefs, l \in LinCoefs \X LinCoefs \X LinCoefs}

\* u of the alternative fit: u[9] is the constant term the result is divided by.
RotatedAltParams ==
    {<<q[1], q[2], 0, 0, 0, l[1], l[2], l[3], k>> :
        q \in QuadCoefs \X QuadCoefs, l \in LinCoefs \X LinCoefs \X LinCoefs,
        k \in {-1, 0, 1}}

FitSphereByParams(p) == fit_sphere(p[1], p[2], p[3], p[4])

FitNonrotatedByParams(p) ==
    fit_ellipsoid_nonrotated(p[1], p[2], p[3], p[4], p[5], p[6])

FitRotatedByParams(p) == fit_ellipsoid_rotated(p)

FitRotatedAltByParams(u) == fit_ellipsoid_rotated_alt(u)

\* No fit has been called.
InitFit ==
    fit = [op |-> "none", n |-> 0, optimizer |-> FALSE, sphere |-> <<>>,
           res |-> [outcome |-> "none", params |-> <<>>, A_4 |-> <<>>,
                    soft_iron |-> <<>>, offset |-> <<>>, semi_axes |-> <<>>,
                    rotation |-> <<>>]]

\* fit_sphere(x, y, z) on n samples: the optimizer is called on whatever
\* arrays come in, then the calibration is derived from its answer.  The fit
\* functions keep nothing between calls, so one call per behaviour shows
\* every call.
FitSphere ==
    /\ fit.op = "none"
    /\ \E n \in SampleCounts : \E p \in SphereParams :
          fit' = [op |-> "fit_sphere", n |-> n, optimizer |-> TRUE, sphere |-> <<>>,
                  res |-> FitSphereByParams(p)]
    /\ UNCHANGED <<refineVars, samplingVars, gridVars, tableVars, codecVars, commsVars, linkVars>>

\* The samples of the sphere round trip lie, without noise, on the sphere
\* with centre c and radius r: (10, -10, 15) and 35 in the unit test,
\* (10, 10, 10) and 35 in the text, and small spheres around and off the
\* origin.
SphereCentres ==
    {<<10, -10, 15>>, <<10, 10, 10>>, <<0, 0, 0>>, <<1, 1, 0>>, <<-1, -1, -1>>, <<3, 4, 0>>}

SphereRadii == {1, 2, 5, 35}

SquaredNorm(c) == c[1] * c[1] + c[2] * c[2] + c[3] * c[3]

\* The minimum of the loss of fit_sphere on such samples.  Every sample
\* satisfies x^2 + y^2 + z^2 - 2 c.(x, y, z) = r^2 - |c|^2, so with
\* K = r^2 - |c|^2 # 0 the parameters a = 1 / K, (g, h, i) = -c / K give the
\* loss 0, and with four samples not in one plane no other parameters do.
SphereOptimum(c, r) ==
    LET K == r * r - SquaredNorm(c)
    IN  <<Fin(1, K), Fin(-c[1], K), Fin(-c[2], K), Fin(-c[3], K)>>

\* fit_sphere(x, y, z) on n >= 4 noise-free samples of a sphere that does
\* not pass through the origin: the optimizer hands back the minimum.  (For
\* a sphere through the origin, K = 0, no parameters have loss 0 and the
\* minimum is not a single point; such samples are left to FitSphere.)
FitSphereNoiseFree ==
    /\ fit.op = "none"
    /\ \E c \in SphereCentres : \E r \in SphereRadii : \E n \in 4..MaxSamples :
          /\ r * r # SquaredNorm(c)
          /\ LET p == SphereOptimum(c, r)
                 cal == SphereCalibration(p[1], p[2], p[3], p[4])
             IN  fit' = [op |-> "fit_sphere", n |-> n, optimizer |-> TRUE,
                         sphere |-> <<c, r>>,
                         res |-> [outcome |-> "returned", params |-> p, A_4 |-> <<>>,
                                  soft_iron |-> cal.soft_iron, offset |-> cal.offset,
                                  semi_axes |-> cal.semi_axes,
                                  rotation |-> cal.rotation]]
    /\ UNCHANGED <<refineVars, samplingVars, gridVars, tableVars, codecVars, commsVars, linkVars>>

FitEllipsoidNonrotated ==
    /\ fit.op = "none"
    /\ \E n \in SampleCounts : \E p \in NonrotatedParams :
          fit' = [op |-> "fit_ellipsoid_nonrotated", n |-> n, optimizer |-> TRUE, sphere |-> <<>>,
                  res |-> FitNonrotatedByParams(p)]
    /\ UNCHANGED <<refineVars, samplingVars, gridVars, tableVars, codecVars, commsVars, linkVars>>

FitEllipsoidRotated ==
    /\ fit.op = "none"
    /\ \E n \in SampleCounts : \E p \in RotatedParams :
          \E res \in FitRotatedByParams(p) :
             fit' = [op |-> "fit_ellipsoid_rotated", n |-> n, optimizer |-> TRUE, sphere |-> <<>>,
                     res |-> res]
    /\ UNCHANGED <<refineVars, samplingVars, gridVars, tableVars, codecVars, commsVars, linkVars>>

FitEllipsoidRotatedAlt ==
    /\ fit.op = "none"
    /\ \E n \in SampleCounts : \E u \in RotatedAltParams :
          \E res \in FitRotatedAltByParams(u) :
             fit' = [op |-> "fit_ellipsoid_rotated_alt", n |-> n, optimizer |-> TRUE, sphere |-> <<>>,
                     res |-> res]
    /\ UNCHANGED <<refineVars, samplingVars, gridVars, tableVars, codecVars, commsVars, linkVars>>

NextFit ==
    \/ FitSphere
    \/ FitSphereNoiseFree
    \/ FitEllipsoidNonrotated
    \/ FitEllipsoidRotated
    \/ FitEllipsoidRotatedAlt

\* The calls of fit_sphere alone.
NextSphereFit == FitSphere \/ FitSphereNoiseFree

(***************************************************************************)
(* makeSphericalMesh and makePaths called on their own.                    *)
(***************************************************************************)
\* An r x c array whose entry at (i, j) is base + 10 * i + j: every entry
\* tells its own position.
CodedArray(r, c, base) ==
    [i \in 0..(r - 1) |-> [j \in 0..(c - 1) |-> base + 10 * i + j]]

\* w, q = np.meshgrid(np.array([0, 10, 20]), np.array([0, 100, 200]))
TestW == [i \in 0..2 |-> [j \in 0..2 |-> 10 * j]]

TestQ == [i \in 0..2 |-> [j \in 0..2 |-> 100 * i]]

\* The arrays handed to makePaths: arrays of every shape up to MaxDim x
\* MaxDim, the meshes makeSphericalMesh returns, the grid of the unit test
\* and every 2 x 2 array of zeros and ones.
GridArrays ==
    {CodedArray(r, c, base) : r \in 1..MaxDim, c \in 1..MaxDim, base \in {0, 100}}
        \cup {makeSphericalMesh(n).polar_angle : n \in 1..MaxN}
        \cup {makeSphericalMesh(n).azimuth : n \in 1..MaxN}
        \cup {TestW, TestQ}
        \cup [0..1 -> [0..1 -> {0, 1}]]

\* Neither function has been called.
InitMesh ==
    grid = [op |-> "none", n |-> 0, w |-> <<>>, q |-> <<>>, res |-> <<>>]

\* makeSphericalMesh(N) for any integer N, N <= 0 included.  Both functions
\* are pure, so one call per behaviour shows every call.
MakeSphericalMesh ==
    /\ grid.op = "none"
    /\ \E n \in (-1)..MaxN :
          grid' = [op |-> "makeSphericalMesh", n |-> n, w |-> <<>>, q |-> <<>>,
                   res |-> makeSphericalMesh(n)]
    /\ UNCHANGED <<refineVars, samplingVars, fitVars, tableVars, codecVars, commsVars, linkVars>>

\* makePaths(w, q)
MakePaths ==
    /\ grid.op = "none"
    /\ \E w \in GridArrays : \E q \in GridArrays :
          grid' = [op |-> "makePaths", n |-> 0, w |-> w, q |-> q,
                   res |-> makePaths(w, q)]
    /\ UNCHANGED <<refineVars, samplingVars, fitVars, tableVars, codecVars, commsVars, linkVars>>

NextMesh == MakeSphericalMesh \/ MakePaths

(***************************************************************************)
(* CalibrationDataModel (src/src/models.py): the table of samples, the     *)
(* offset of the last ellipsoid fit and the coverage tracker it feeds.     *)
(* A row is <<x, y, z, magnitude>>; rows keep the order of self._data and  *)
(* are counted from 1 here, from 0 in the source.  A cell of the tracker   *)
(* is named by an offset-corrected sample whose direction lies in it.      *)
(***************************************************************************)
\* Samples a board delivers, and the offsets an ellipsoid fit may return.
Samples == {<<1, 0, 0>>, <<0, 1, 0>>}

Offsets == {<<0, 0, 0>>, <<1, 0, 0>>}

\* One call of the Qt model interface: begin/end of a bracket with the row
\* range it announces (-1 where the call takes no range).
Ev(name, first, last) == [ev |-> name, first |-> first, last |-> last]

\* np.sqrt((row**2).sum())
calculate_magnitude(s) == FSqrt(Whole(s[1] * s[1] + s[2] * s[2] + s[3] * s[3]))

\* row = np.append(row, self.calculate_magnitude(row))
RowOf(s) == <<s[1], s[2], s[3], calculate_magnitude(s)>>

\* rowCount(): len(self._data), 0 when self._data does not exist
rowCount(t) == IF t.has_data THEN Len(t.rows) ELSE 0

\* get_xyz_data(with_offset=True): the samples minus the offset of the last
\* fit; reading self.ellipsoid_params (or self._data) before it exists raises
\* AttributeError, which the method catches and answers with empty arrays.
get_xyz_data(t) ==
    IF t.has_data /\ t.has_params
    THEN [k \in 1..Len(t.rows) |->
             <<t.rows[k][1] - t.offset[1], t.rows[k][2] - t.offset[2],
               t.rows[k][3] - t.offset[3]>>]
    ELSE <<>>

\* polar_angle = arccos(z / r), azimuth = atan2(y, x) and the search of the
\* tracker for a cell containing that point.  r = 0 gives nan, which no cell
\* contains.  A direction along the z axis (polar angle 0 or pi) or along
\* the negative x axis (azimuth pi) lies on the edge of the mesh, where
\* contains_point may answer either way.  Every other direction with
\* integer coordinates lies strictly inside one cell of the 10 x 10 mesh.
Locatable(v) ==
    IF v = <<0, 0, 0>> THEN {FALSE}
    ELSE IF v[1] = 0 /\ v[2] = 0 THEN {TRUE, FALSE}
    ELSE IF v[2] = 0 /\ v[1] < 0 THEN {TRUE, FALSE}
    ELSE {TRUE}

\* self.sampling.update(coords): point after point, SamplingError at the
\* first point no cell contains.
RECURSIVE FeedTracker(_, _)
FeedTracker(marked, coords) ==
    IF coords = <<>>
    THEN {[marked |-> marked, raised |-> FALSE]}
    ELSE UNION {IF found
                THEN FeedTracker(marked \cup {Head(coords)}, Tail(coords))
                ELSE {[marked |-> marked, raised |-> TRUE]} :
                   found \in Locatable(Head(coords))}

\* update_offset(): fitEllipsoidNonRotated over the stored samples; the
\* first three parameters of the optimizer's answer become the offset.
update_offset(t) ==
    {[t EXCEPT !.has_params = TRUE, !.offset = o] : o \in Offsets}

\* update_sampling() with at least one row stored: every way it can end.
\* The offset is fitted when the row count is a multiple of OffsetPeriod;
\* the tracker is fed every corrected sample; the offset is printed last,
\* which raises AttributeError while no fit has been made.
update_sampling(t) ==
    LET fitted == IF rowCount(t) % OffsetPeriod = 0 THEN update_offset(t) ELSE {t}
    IN  UNION {{[state |-> [u EXCEPT !.marked = f.marked],
                 raised |-> IF f.raised THEN "SamplingError"
                            ELSE IF ~u.has_params THEN "AttributeError"
                            ELSE "none"] :
                    f \in FeedTracker(u.marked, get_xyz_data(u))} : u \in fitted}

\* append_data(row): every way the call can end.
append_data(t, s) ==
    LET opened == <<Ev("beginInsertRows", rowCount(t), rowCount(t))>>
        stored == IF t.has_data
                  THEN [t EXCEPT !.rows = Append(t.rows, RowOf(s))]
                  ELSE [t EXCEPT !.has_data = TRUE, !.rows = <<RowOf(s)>>]
        reset == IF t.has_data THEN <<>>
                 ELSE <<Ev("beginResetModel", -1, -1), Ev("endResetModel", -1, -1)>>
    IN  {[o.state EXCEPT
             !.op = "append_data", !.row = 0, !.count = 0,
             !.events = IF o.raised = "none"
                        THEN opened \o reset \o <<Ev("endInsertRows", -1, -1)>>
                        ELSE opened \o reset,
             !.outcome = IF o.raised = "none" THEN "returned" ELSE o.raised,
             !.ret = FALSE] : o \in update_sampling(stored)}

\* np.delete(self._data, np.arange(row, row + count), axis=0): an index
\* outside -len .. len - 1 raises IndexError, a negative one counts from
\* the end.
DeleteIndices(n, row, count) ==
    {IF k < 0 THEN k + n + 1 ELSE k + 1 : k \in row..(row + count - 1)}

IndexErrorIn(n, row, count) ==
    \E k \in row..(row + count - 1) : k >= n \/ k < -n

RECURSIVE Delete(_, _, _)
Delete(rows, gone, k) ==
    IF k > Len(rows) THEN <<>>
    ELSE IF k \in gone THEN Delete(rows, gone, k + 1)
    ELSE <<rows[k]>> \o Delete(rows, gone, k + 1)

\* removeRows(row, count)
removeRows(t, row, count) ==
    LET opened == <<Ev("beginRemoveRows", row, row + count)>>
        closed == opened \o <<Ev("endRemoveRows", -1, -1)>>
        done == [t EXCEPT !.op = "removeRows", !.row = row, !.count = count,
                          !.events = closed]
    IN  IF ~t.has_data
        THEN [done EXCEPT !.outcome = "AttributeError", !.ret = FALSE]
        ELSE IF IndexErrorIn(Len(t.rows), row, count)
        THEN [done EXCEPT !.outcome = "returned", !.ret = FALSE]
        ELSE [done EXCEPT !.outcome = "returned", !.ret = TRUE,
                          !.rows = Delete(t.rows, DeleteIndices(Len(t.rows), row, count), 1)]

\* set_data(array)
set_data(t, array) ==
    [t EXCEPT !.op = "set_data", !.row = 0, !.count = 0,
              !.events = <<Ev("beginResetModel", -1, -1), Ev("endResetModel", -1, -1)>>,
              !.outcome = "returned", !.ret = FALSE,
              !.has_data = TRUE, !.rows = array]

\* The arrays given to set_data: no row or one row of four columns.
TableArrays == {<<>>} \cup {<<RowOf(s)>> : s \in Samples}

\* CalibrationDataModel(): self._data and self.ellipsoid_params do not
\* exist yet, the tracker is fresh.
InitTable ==
    table = [has_data |-> FALSE, rows |-> <<>>, has_params |-> FALSE,
             offset |-> <<0, 0, 0>>, marked |-> {},
             op |-> "init", row |-> 0, count |-> 0, events |-> <<>>,
             outcome |-> "returned", ret |-> FALSE]

AppendData ==
    /\ rowCount(table) < MaxRows
    /\ \E s \in Samples : table' \in append_data(table, s)
    /\ UNCHANGED <<refineVars, samplingVars, fitVars, gridVars, codecVars, commsVars, linkVars>>

RemoveRows ==
    /\ \E row \in (-1)..MaxRemove : \E count \in 0..MaxRemove :
          table' = removeRows(table, row, count)
    /\ UNCHANGED <<refineVars, samplingVars, fitVars, gridVars, codecVars, commsVars, linkVars>>

SetData ==
    /\ \E array \in TableArrays : table' = set_data(table, array)
    /\ UNCHANGED <<refineVars, samplingVars, fitVars, gridVars, codecVars, commsVars, linkVars>>

NextTable == AppendData \/ RemoveRows \/ SetData

(***************************************************************************)
(* Nano33SerialComms: escaping of the bytes sent to and received from the  *)
(* board (src/src/serial_comms.py).  A byte string is a sequence of        *)
(* numbers 0..255, counted from 1 here, from 0 in the source.              *)
(***************************************************************************)
\* The control characters parse_outbound_bytes escapes, in its order.
EscapedCharacters ==
    <<ASCII_ESC, ASCII_SOH, ASCII_STX, ASCII_ETX, ASCII_EOT, ASCII_NUL, ASCII_CR, ASCII_LF>>

\* bytes.replace(old, new): every occurrence of old, found from the left
\* without overlap, becomes new.
RECURSIVE BytesReplace(_, _, _)
BytesReplace(s, old, new) ==
    IF Len(s) < Len(old) THEN s
    ELSE IF SubSeq(s, 1, Len(old)) = old
         THEN new \o BytesReplace(SubSeq(s, Len(old) + 1, Len(s)), old, new)
         ELSE <<Head(s)>> \o BytesReplace(Tail(s), old, new)

\* bytes.find(sub): the first index (from 0) holding sub, or -1.
BytesFind(s, sub) ==
    IF \E k \in 1..Len(s) : s[k] = sub
    THEN (CHOOSE k \in 1..Len(s) : s[k] = sub /\ \A j \in 1..(k - 1) : s[j] # sub) - 1
    ELSE -1

\* The loop of parse_outbound_bytes from position k of the list on.
RECURSIVE EscapeFrom(_, _, _)
EscapeFrom(res, order, k) ==
    IF k > Len(order) THEN res
    ELSE EscapeFrom(BytesReplace(res, <<order[k]>>, <<ASCII_ESC, order[k] + ESCAPE_OFFSET>>),
                    order, k + 1)

parse_outbound_bytes(d) == EscapeFrom(d, EscapedCharacters, 1)

\* parse_inbound_bytes(d): while an escape byte is found, the pair made of
\* it and the byte after it is replaced everywhere by that byte minus
\* ESCAPE_OFFSET.  res[i + 1] past the end raises IndexError and bytes([n])
\* with n < 0 raises ValueError.
RECURSIVE parse_inbound_bytes(_)
parse_inbound_bytes(d) ==
    LET i == BytesFind(d, ASCII_ESC)
    IN  IF i = -1 THEN [outcome |-> "returned", value |-> d]
        ELSE IF i + 2 > Len(d) THEN [outcome |-> "IndexError", value |-> <<>>]
        ELSE LET c_esc == d[i + 2]
                 c_real == c_esc - ESCAPE_OFFSET
             IN  IF c_real < 0 THEN [outcome |-> "ValueError", value |-> <<>>]
                 ELSE parse_inbound_bytes(BytesReplace(d, <<ASCII_ESC, c_esc>>, <<c_real>>))

\* Byte values of the strings: the control characters, the characters they
\* are escaped to (0x21 for SOH, 0x3B for ESC) and the letter A.
ByteValues ==
    {ASCII_NUL, ASCII_SOH, ASCII_STX, ASCII_ETX, ASCII_EOT, ASCII_LF, ASCII_CR,
     ASCII_ESC, ASCII_SOH + ESCAPE_OFFSET, ASCII_ESC + ESCAPE_OFFSET, 65}

ByteStrings == UNION {[1..len -> ByteValues] : len \in 0..MaxBytes}

\* Neither function has been called.
InitCodec == wire = [op |-> "none", d |-> <<>>, res |-> <<>>]

\* parse_outbound_bytes(d).  Both functions are static and pure, so one call
\* per behaviour shows every call.
ParseOutboundBytes ==
    /\ wire.op = "none"
    /\ \E d \in ByteStrings :
          wire' = [op |-> "parse_outbound_bytes", d |-> d, res |-> parse_outbound_bytes(d)]
    /\ UNCHANGED <<refineVars, samplingVars, fitVars, gridVars, tableVars, commsVars, linkVars>>

\* parse_inbound_bytes(d)
ParseInboundBytes ==
    /\ wire.op = "none"
    /\ \E d \in ByteStrings :
          wire' = [op |-> "parse_inbound_bytes", d |-> d, res |-> parse_inbound_bytes(d)]
    /\ UNCHANGED <<refineVars, samplingVars, fitVars, gridVars, tableVars, commsVars, linkVars>>

NextCodec == ParseOutboundBytes \/ ParseInboundBytes

(***************************************************************************)
(* serial_comms.py, gui.py: Board2GUI, the object that runs the comms      *)
(* tasks in the worker thread, and the handlers of the GUI thread that     *)
(* drive it.  A task slot is run in steps, one per statement that another  *)
(* thread can see or disturb; a block under self.mutex is one step.  An    *)
(* attribute that does not exist yet is <<>>, one with the value v is      *)
(* <<v>>.  The fields failed, streaming and stopped are history: they      *)
(* record what happened to the running invocation and steer nothing.       *)
(***************************************************************************)
\* for attempt in range(self.read_retries): no value is left after this one.
RangeExhaustedLate(attempt, retries) == attempt >= retries

RangeExhausted(attempt, retries) == attempt + 1 >= retries

\* while i < self.read_sample_size and not self.stop
WhileConditionInclusive(i, size, stop) == i <= size /\ ~stop

WhileCondition(i, size, stop) == i < size /\ ~stop

ReadSlot == "read_magnetic_calibration_data"

CalibrationSlots == {"get_calibration", "set_calibration"}

\* The calibration types the match statements know, and one they do not.
KnownTypes == {"magnetometer", "magnetic", "gyroscope", "accelerometer", "misc"}

CalibrationTypes == KnownTypes \cup {"temperature"}

Requests ==
    {[slot |-> ReadSlot, type |-> "none", stopped |-> FALSE]}
        \cup {[slot |-> s, type |-> t, stopped |-> FALSE] :
                  s \in CalibrationSlots, t \in CalibrationTypes}

\* Board2GUI.__init__, with an idle worker thread and an untouched window.
NewBoard2GUI ==
    [board |-> "unset", read_sample_size |-> <<>>, stop |-> <<>>,
     task_running |-> FALSE,
     queue |-> <<>>, pending |-> 0, button |-> "Start", presses |-> 0,
     closing |-> FALSE,
     pc |-> "idle", slot |-> "none", type |-> "none", i |-> 0, attempt |-> 0,
     exc |-> "none", ended |-> FALSE,
     rows |-> 0, reads |-> 0, done |-> 0, errors |-> <<>>, received |-> 0,
     failed |-> FALSE, streaming |-> FALSE, stopped |-> <<>>]

set_board(c, board) == [c EXCEPT !.board = board]

set_sample_size(c, n) == [c EXCEPT !.read_sample_size = <<n>>]

\* The stop request is noted against the read it is meant for: the running
\* one (with the rows emitted so far), else the first one waiting.
NoteStop(c) ==
    IF c.pc \notin {"idle", "finished"} /\ c.slot = ReadSlot
    THEN IF c.stopped = <<>> THEN [c EXCEPT !.stopped = <<c.rows>>] ELSE c
    ELSE IF c.queue # <<>> THEN [c EXCEPT !.queue[1].stopped = TRUE] ELSE c

set_stop_flag(c) == [NoteStop(c) EXCEPT !.stop = <<TRUE>>]

\* update_current_board: a new board object and the sample size of the
\* spin box, whatever the worker is doing.
update_current_board(c, n) == set_sample_size(set_board(c, "board"), n)

NoBoard(c) == c.board \in {"unset", "None"}

\* except AttributeError / except BoardCommsError of the read task: the
\* exception goes out through error_signal and the finally block follows.
Handled(c, e) == [c EXCEPT !.errors = Append(@, e), !.pc = "finally"]

\* A task slot has returned, or let the exception e out.
Ended(c, e) == [c EXCEPT !.pc = "idle", !.exc = e, !.ended = TRUE]

InitComms == comms = NewBoard2GUI

\* The event loop of the worker thread delivers a queued slot call.
BeginSlot ==
    /\ comms.pc = "idle"
    /\ comms.queue # <<>>
    /\ LET r == Head(comms.queue)
       IN  comms' = [comms EXCEPT
                        !.queue = Tail(@),
                        !.pc = IF r.slot = ReadSlot THEN "enter" ELSE "cal_open",
                        !.slot = r.slot, !.type = r.type,
                        !.i = 0, !.attempt = 0, !.exc = "none", !.ended = FALSE,
                        !.rows = 0, !.reads = 0, !.done = 0, !.errors = <<>>,
                        !.received = 0, !.failed = FALSE, !.streaming = FALSE,
                        !.stopped = IF r.stopped THEN <<0>> ELSE <<>>]
    /\ UNCHANGED <<refineVars, samplingVars, fitVars, gridVars, tableVars, codecVars, linkVars>>

\* with self.mutex: task_running = True; stop = False; i = 0
ReadEnter ==
    /\ comms.pc = "enter"
    /\ comms' = [comms EXCEPT !.task_running = TRUE, !.stop = <<FALSE>>,
                              !.i = 0, !.pc = "open"]
    /\ UNCHANGED <<refineVars, samplingVars, fitVars, gridVars, tableVars, codecVars, linkVars>>

\* self.board.open()
ReadOpen ==
    /\ comms.pc = "open"
    /\ \E ok \in BOOLEAN :
          comms' = IF NoBoard(comms) THEN Handled(comms, "AttributeError")
                   ELSE IF ok THEN [comms EXCEPT !.pc = "mode"]
                   ELSE Handled(comms, "BoardCommsError")
    /\ UNCHANGED <<refineVars, samplingVars, fitVars, gridVars, tableVars, codecVars, linkVars>>

\* self.board.set_output_mode(SERIAL_PRINT_MAG_RAW)
ReadSetOutputMode ==
    /\ comms.pc = "mode"
    /\ \E ok \in BOOLEAN :
          comms' = IF ok THEN [comms EXCEPT !.pc = "while", !.streaming = TRUE]
                   ELSE Handled(comms, "BoardCommsError")
    /\ UNCHANGED <<refineVars, samplingVars, fitVars, gridVars, tableVars, codecVars, linkVars>>

\* The test of the while loop; a true one enters the retry loop.
ReadWhile ==
    /\ comms.pc = "while"
    /\ comms' = IF comms.read_sample_size = <<>>
                THEN Handled(comms, "AttributeError")
                ELSE IF WhileCondition(comms.i, comms.read_sample_size[1],
                                       comms.stop[1])
                     THEN [comms EXCEPT !.pc = "read", !.attempt = 0]
                     ELSE [comms EXCEPT !.pc = "finally"]
    /\ UNCHANGED <<refineVars, samplingVars, fitVars, gridVars, tableVars, codecVars, linkVars>>

\* One pass of the retry loop: read_row gives a row, which is emitted, or
\* raises NoDataReceived; after the last attempt the for-else emits
\* RetryLimitReached and leaves the while loop.
ReadRow ==
    /\ comms.pc = "read"
    /\ \E ok \in BOOLEAN :
          comms' = IF ok
                   THEN [comms EXCEPT !.reads = @ + 1, !.rows = @ + 1,
                                      !.i = @ + 1, !.pc = "while"]
                   ELSE IF RangeExhausted(comms.attempt, read_retries)
                        THEN [comms EXCEPT !.reads = @ + 1, !.failed = TRUE,
                                           !.errors = Append(@, "RetryLimitReached"),
                                           !.pc = "finally"]
                        ELSE [comms EXCEPT !.reads = @ + 1, !.failed = TRUE,
                                           !.attempt = @ + 1]
    /\ UNCHANGED <<refineVars, samplingVars, fitVars, gridVars, tableVars, codecVars, linkVars>>

\* finally: with self.mutex: task_running = False
ReadFinally ==
    /\ comms.pc = "finally"
    /\ comms' = [comms EXCEPT !.task_running = FALSE, !.pc = "close"]
    /\ UNCHANGED <<refineVars, samplingVars, fitVars, gridVars, tableVars, codecVars, linkVars>>

\* self.board.close(), still in the finally block
ReadClose ==
    /\ comms.pc = "close"
    /\ comms' = IF NoBoard(comms) THEN Ended(comms, "AttributeError")
                ELSE [comms EXCEPT !.pc = "done"]
    /\ UNCHANGED <<refineVars, samplingVars, fitVars, gridVars, tableVars, codecVars, linkVars>>

\* self.task_done.emit(): queued to comms_task_done of the GUI thread
ReadTaskDone ==
    /\ comms.pc = "done"
    /\ comms' = Ended([comms EXCEPT !.done = @ + 1, !.pending = @ + 1], "none")
    /\ UNCHANGED <<refineVars, samplingVars, fitVars, gridVars, tableVars, codecVars, linkVars>>

\* get_calibration, set_calibration: self.board.open(); no except clause
\* follows the try, so an exception waits in exc for the finally block.
CalOpen ==
    /\ comms.pc = "cal_open"
    /\ \E ok \in BOOLEAN :
          comms' = IF NoBoard(comms)
                   THEN [comms EXCEPT !.exc = "AttributeError", !.pc = "cal_finally"]
                   ELSE IF ok THEN [comms EXCEPT !.pc = "cal_mark"]
                   ELSE [comms EXCEPT !.exc = "BoardCommsError", !.pc = "cal_finally"]
    /\ UNCHANGED <<refineVars, samplingVars, fitVars, gridVars, tableVars, codecVars, linkVars>>

\* with self.mutex: task_running = True
CalMark ==
    /\ comms.pc = "cal_mark"
    /\ comms' = [comms EXCEPT !.task_running = TRUE, !.pc = "cal_match"]
    /\ UNCHANGED <<refineVars, samplingVars, fitVars, gridVars, tableVars, codecVars, linkVars>>

\* match calibration_type.lower(): the board is asked (get_calibration then
\* emits calibration_received); an unknown type raises ValueError.
CalMatch ==
    /\ comms.pc = "cal_match"
    /\ \E ok \in BOOLEAN :
          comms' = IF comms.type \notin KnownTypes
                   THEN [comms EXCEPT !.exc = "ValueError", !.pc = "cal_finally"]
                   ELSE IF ok
                        THEN [comms EXCEPT
                                 !.received = IF comms.slot = "get_calibration"
                                              THEN @ + 1 ELSE @,
                                 !.pc = "cal_finally"]
                        ELSE [comms EXCEPT !.exc = "BoardCommsError",
                                           !.pc = "cal_finally"]
    /\ UNCHANGED <<refineVars, samplingVars, fitVars, gridVars, tableVars, codecVars, linkVars>>

\* finally: with self.mutex: task_running = False
CalFinally ==
    /\ comms.pc = "cal_finally"
    /\ comms' = [comms EXCEPT !.task_running = FALSE, !.pc = "cal_done"]
    /\ UNCHANGED <<refineVars, samplingVars, fitVars, gridVars, tableVars, codecVars, linkVars>>

\* self.task_done.emit()
CalTaskDone ==
    /\ comms.pc = "cal_done"
    /\ comms' = [comms EXCEPT !.done = @ + 1, !.pending = @ + 1, !.pc = "cal_close"]
    /\ UNCHANGED <<refineVars, samplingVars, fitVars, gridVars, tableVars, codecVars, linkVars>>

\* self.board.close() and the closing log line; the slot then lets out the
\* exception that waited, or the AttributeError of close.
CalClose ==
    /\ comms.pc = "cal_close"
    /\ comms' = IF NoBoard(comms) THEN Ended(comms, "AttributeError")
                ELSE Ended(comms, comms.exc)
    /\ UNCHANGED <<refineVars, samplingVars, fitVars, gridVars, tableVars, codecVars, linkVars>>

\* set_stop_flag called from another thread while the flag is not set.
SetStopFlag ==
    /\ comms.stop # <<TRUE>>
    /\ ~comms.ended
    /\ comms' = set_stop_flag(comms)
    /\ UNCHANGED <<refineVars, samplingVars, fitVars, gridVars, tableVars, codecVars, linkVars>>

\* data_read_callback: a press of the data button.  stop_comms_task is a
\* direct connection: set_stop_flag runs inside the handler.
DataReadCallback ==
    /\ ~comms.closing
    /\ comms.presses < MaxPresses
    /\ \E n \in 1..MaxSampleSize :
          LET c == [update_current_board(comms, n) EXCEPT !.presses = @ + 1]
          IN  comms' = IF ~c.task_running
                       THEN [c EXCEPT
                                !.button = "Stop",
                                !.queue = Append(@, [slot |-> ReadSlot, type |-> "none",
                                                     stopped |-> FALSE])]
                       ELSE set_stop_flag(c)
    /\ UNCHANGED <<refineVars, samplingVars, fitVars, gridVars, tableVars, codecVars, linkVars>>

\* comms_task_done: the GUI thread handles a queued task_done.
CommsTaskDone ==
    /\ ~comms.closing
    /\ comms.pending > 0
    /\ comms' = [comms EXCEPT !.pending = @ - 1, !.button = "Start"]
    /\ UNCHANGED <<refineVars, samplingVars, fitVars, gridVars, tableVars, codecVars, linkVars>>

\* closeEvent: the comms thread is running, so stop_comms_task is emitted
\* and the thread is told to quit; the GUI thread then waits for it.
CloseEvent ==
    /\ ~comms.closing
    /\ comms' = [set_stop_flag(comms) EXCEPT !.closing = TRUE]
    /\ UNCHANGED <<refineVars, samplingVars, fitVars, gridVars, tableVars, codecVars, linkVars>>

\* The event loop of the worker thread leaves after quit(); whether a slot
\* call queued before it is still delivered is up to the event loop.
ThreadQuit ==
    /\ comms.closing
    /\ comms.pc = "idle"
    /\ comms' = [comms EXCEPT !.pc = "finished"]
    /\ UNCHANGED <<refineVars, samplingVars, fitVars, gridVars, tableVars, codecVars, linkVars>>

NextRead ==
    \/ BeginSlot
    \/ ReadEnter
    \/ ReadOpen
    \/ ReadSetOutputMode
    \/ ReadWhile
    \/ ReadRow
    \/ ReadFinally
    \/ ReadClose
    \/ ReadTaskDone

NextCalibration ==
    \/ CalOpen
    \/ CalMark
    \/ CalMatch
    \/ CalFinally
    \/ CalTaskDone
    \/ CalClose

NextWorker == NextRead \/ NextCalibration

\* A task slot called on a Board2GUI set up as a caller may have left it.
NextTask == NextWorker \/ SetStopFlag

\* The window and its worker thread, reading.
NextComms ==
    \/ DataReadCallback
    \/ CommsTaskDone
    \/ CloseEvent
    \/ ThreadQuit
    \/ NextRead

\* One slot call waits for the worker, on a Board2GUI whose board and
\* sample size the caller has set or not.
InitTask ==
    \E b \in {"unset", "None", "board"} :
       \E size \in {<<>>} \cup {<<n>> : n \in 0..MaxSampleSize} :
          \E r \in Requests :
             comms = [NewBoard2GUI EXCEPT !.board = b, !.read_sample_size = size,
                                          !.queue = <<r>>]

(***************************************************************************)
(* serial_comms.py: framing.  A command is SOH, the escaped header, STX,   *)
(* the escaped body, ETX, EOT; a reply from the board has the same shape.  *)
(***************************************************************************)
\* send_command: the bytes handed to self.ser.write.
send_command(raw_header, raw_body) ==
    <<ASCII_SOH>> \o parse_outbound_bytes(raw_header) \o <<ASCII_STX>>
        \o parse_outbound_bytes(raw_body) \o <<ASCII_ETX, ASCII_EOT>>

Failure(e) == [outcome |-> e, header |-> <<>>, body |-> <<>>]

\* retrieve_header_and_body(d), raw = False.  d.index raises ValueError for
\* a missing byte; the except clause turns every ValueError of the try
\* block, that of parse_inbound_bytes included, into BoardCommsError and
\* lets any other exception pass.
retrieve_header_and_body(d) ==
    LET i_soh == BytesFind(d, ASCII_SOH)
        i_stx == BytesFind(d, ASCII_STX)
        i_etx == BytesFind(d, ASCII_ETX)
        i_eot == BytesFind(d, ASCII_EOT)
    IN  IF i_soh = -1 \/ i_stx = -1 \/ i_etx = -1 \/ i_eot = -1
        THEN Failure("BoardCommsError")
        ELSE IF ~(i_soh < i_stx /\ i_stx < i_etx /\ i_etx < i_eot)
        THEN Failure("BoardCommsError")
        ELSE LET header == parse_inbound_bytes(SubSeq(d, i_soh + 2, i_stx))
                 body == parse_inbound_bytes(SubSeq(d, i_stx + 2, i_etx))
             IN  IF header.outcome = "ValueError" THEN Failure("BoardCommsError")
                 ELSE IF header.outcome # "returned" THEN Failure(header.outcome)
                 ELSE IF body.outcome = "ValueError" THEN Failure("BoardCommsError")
                 ELSE IF body.outcome # "returned" THEN Failure(body.outcome)
                 ELSE [outcome |-> "returned", header |-> header.value,
                       body |-> body.value]

\* Headers and bodies handed to send_command.
FieldStrings == UNION {[1..len -> ByteValues] : len \in 0..MaxField}

\* Bytes of the lines the board may send: the four frame characters, the
\* escape byte and the letter A.
ReplyBytes == {ASCII_SOH, ASCII_STX, ASCII_ETX, ASCII_EOT, ASCII_ESC, 65}

Replies == UNION {[1..len -> ReplyBytes] : len \in 0..MaxReply}

\* send_command(raw_header, raw_body)
SendCommand ==
    /\ wire.op = "none"
    /\ \E raw_header \in FieldStrings :
          \E raw_body \in FieldStrings :
             wire' = [op |-> "send_command", d |-> <<raw_header, raw_body>>,
                      res |-> send_command(raw_header, raw_body)]
    /\ UNCHANGED <<refineVars, samplingVars, fitVars, gridVars, tableVars, commsVars, linkVars>>

\* retrieve_header_and_body(d) on a received line
RetrieveHeaderAndBody ==
    /\ wire.op = "none"
    /\ \E d \in Replies :
          wire' = [op |-> "retrieve_header_and_body", d |-> d,
                   res |-> retrieve_header_and_body(d)]
    /\ UNCHANGED <<refineVars, samplingVars, fitVars, gridVars, tableVars, commsVars, linkVars>>

NextFraming == SendCommand \/ RetrieveHeaderAndBody

(***************************************************************************)
(* serial_comms.py: calibration_reply_helper, which reads lines from the   *)
(* board until one holds the calibration values.  struct_format is kept    *)
(* as the number of bytes it stands for (struct.calcsize).                 *)
(***************************************************************************)
\* struct.unpack(struct_format, reply_body): struct.error unless the body
\* has the size of the format.
struct_unpack(size, reply_body) ==
    IF Len(reply_body) = size
    THEN [outcome |-> "returned", params |-> reply_body]
    ELSE [outcome |-> "struct.error", params |-> <<>>]

\* A call of calibration_reply_helper about to enter its while loop.
NewHelper(size) ==
    [size |-> size, retry_number |-> 0, reads |-> 0, pc |-> "reading",
     outcome |-> "none", reply |-> <<>>, params |-> <<>>]

IdleLink == link = NewHelper(1)

InitLink == \E size \in 1..MaxStructSize : link = NewHelper(size)

\* One pass of the while loop: a line is read, split and unpacked.  The
\* two except clauses count BoardCommsError and struct.error as a retry;
\* the values are returned; any other exception leaves the helper.
ReadReply ==
    /\ link.pc = "reading"
    /\ link.retry_number # ReplyLimit
    /\ \E reply \in Replies :
          LET r == retrieve_header_and_body(reply)
              u == struct_unpack(link.size, r.body)
          IN  link' =
                 IF r.outcome = "BoardCommsError"
                 THEN [link EXCEPT !.reads = @ + 1, !.retry_number = @ + 1]
                 ELSE IF r.outcome # "returned"
                 THEN [link EXCEPT !.reads = @ + 1, !.pc = "ended",
                                   !.outcome = r.outcome, !.reply = reply]
                 ELSE IF u.outcome = "struct.error"
                 THEN [link EXCEPT !.reads = @ + 1, !.retry_number = @ + 1]
                 ELSE [link EXCEPT !.reads = @ + 1, !.pc = "ended",
                                   !.outcome = "returned", !.reply = reply,
                                   !.params = u.params]
    /\ UNCHANGED <<refineVars, samplingVars, fitVars, gridVars, tableVars, codecVars, commsVars>>

\* The else of the while loop: retry_number has reached 30.
GiveUp ==
    /\ link.pc = "reading"
    /\ link.retry_number = ReplyLimit
    /\ link' = [link EXCEPT !.pc = "ended", !.outcome = "BoardCommsError"]
    /\ UNCHANGED <<refineVars, samplingVars, fitVars, gridVars, tableVars, codecVars, commsVars>>

NextLink == ReadReply \/ GiveUp

(***************************************************************************)
(* Specifications: one per component, the other component at rest.         *)
(***************************************************************************)
IdleSampling ==
    /\ N = 1
    /\ sampled = NewSampled(1)
    /\ call = [op |-> "init", raised |-> FALSE, outside |-> FALSE, centroids |-> FALSE]

IdleRefine ==
    /\ gain = [i \in Idx |-> 1]
    /\ rot = [r \in Idx |-> [c \in Idx |-> IF r = c THEN 1 ELSE 0]]
    /\ hist = <<>>

RefineStart == InitRefine /\ IdleSampling /\ InitFit /\ InitMesh /\ InitTable /\ InitCodec /\ InitComms /\ IdleLink

SamplingStart == InitSampling /\ IdleRefine /\ InitFit /\ InitMesh /\ InitTable /\ InitCodec /\ InitComms /\ IdleLink

FitStart == InitFit /\ IdleRefine /\ IdleSampling /\ InitMesh /\ InitTable /\ InitCodec /\ InitComms /\ IdleLink

MeshStart == InitMesh /\ IdleRefine /\ IdleSampling /\ InitFit /\ InitTable /\ InitCodec /\ InitComms /\ IdleLink

SpecRefine == RefineStart /\ [][CallRefine]_vars

SpecSampling == SamplingStart /\ [][NextSampling]_vars

SpecFit == FitStart /\ [][NextFit]_vars

SpecSphereFit == FitStart /\ [][NextSphereFit]_vars

SpecMesh == MeshStart /\ [][NextMesh]_vars

TableStart == InitTable /\ IdleRefine /\ IdleSampling /\ InitFit /\ InitMesh /\ InitCodec /\ InitComms /\ IdleLink

SpecTable == TableStart /\ [][NextTable]_vars

CodecStart == InitCodec /\ IdleRefine /\ IdleSampling /\ InitFit /\ InitMesh /\ InitTable /\ InitComms /\ IdleLink

SpecCodec == CodecStart /\ [][NextCodec]_vars

TaskStart ==
    InitTask /\ IdleRefine /\ IdleSampling /\ InitFit /\ InitMesh /\ InitTable /\ InitCodec
        /\ IdleLink

SpecTask == TaskStart /\ [][NextTask]_vars

\* The worker thread keeps running the slot it has begun.
SpecTaskFair == SpecTask /\ WF_vars(NextWorker)

CommsStart ==
    InitComms /\ IdleRefine /\ IdleSampling /\ InitFit /\ InitMesh /\ InitTable /\ InitCodec
        /\ IdleLink

SpecComms == CommsStart /\ [][NextComms]_vars

SpecFraming == CodecStart /\ [][NextFraming]_vars

LinkStart ==
    InitLink /\ IdleRefine /\ IdleSampling /\ InitFit /\ InitMesh /\ InitTable /\ InitCodec
        /\ InitComms

SpecLink == LinkStart /\ [][NextLink]_vars

(***************************************************************************)
(* fit_ellipsoid_rotated: soft_iron = np.matmul(np.diag(1 / semi_axes),    *)
(* rotation).  Row r of the rotation is scaled by 1 / semi_axes[r]; the    *)
(* model keeps integers by scaling every row with the product of all three *)
(* semi-axes.                                                              *)
(***************************************************************************)
GainProduct(g) == g[0] * g[1] * g[2]

soft_iron(g, m) ==
    [r \in Idx |-> [c \in Idx |-> m[r][c] * (GainProduct(g) \div g[r])]]

(***************************************************************************)
(* Properties of refine_rotation_matrix.                                   *)
(***************************************************************************)
Calls == 1..Len(hist)

Identity3 == [r \in Idx |-> [c \in Idx |-> IF r = c THEN 1 ELSE 0]]

Column(m, c) == [r \in Idx |-> m[r][c]]

NegVec(v) == [r \in Idx |-> -v[r]]

IndexPerms == {p \in [Idx -> Idx] : \A a, b \in Idx : p[a] = p[b] => a = b}

\* soft_iron^T . soft_iron, the matrix of the quadric |soft_iron . v|^2 = 1,
\* times GainProduct(g)^2.
EllipsoidMatrix(g, m) ==
    LET w == soft_iron(g, m)
    IN  [a \in Idx |-> [b \in Idx |->
            w[0][a] * w[0][b] + w[1][a] * w[1][b] + w[2][a] * w[2][b]]]

SameEllipsoid(g1, m1, g2, m2) ==
    \A a, b \in Idx :
        EllipsoidMatrix(g1, m1)[a][b] * GainProduct(g2) * GainProduct(g2)
            = EllipsoidMatrix(g2, m2)[a][b] * GainProduct(g1) * GainProduct(g1)

\* m^T . m is a positive multiple of the identity.
IsOrthonormalScaled(m) ==
    LET dot(a, b) == m[0][a] * m[0][b] + m[1][a] * m[1][b] + m[2][a] * m[2][b]
    IN  /\ dot(0, 0) > 0
        /\ \A a, b \in Idx : dot(a, b) = IF a = b THEN dot(0, 0) ELSE 0

IsPermutationMatrix(m) ==
    /\ \A r, c \in Idx : m[r][c] \in {0, 1}
    /\ \A r \in Idx : m[r][0] + m[r][1] + m[r][2] = 1
    /\ \A c \in Idx : m[0][c] + m[1][c] + m[2][c] = 1

ColumnsPermutedAndNegated(m1, m2) ==
    \E p \in IndexPerms :
        \A c \in Idx : \/ Column(m2, c) = Column(m1, p[c])
                       \/ Column(m2, c) = NegVec(Column(m1, p[c]))

\* Every off-diagonal entry is smaller in magnitude than every diagonal entry.
MaximaOnDiagonal(m) ==
    \A r, c, d \in Idx : r # c => Abs(m[r][c]) < Abs(m[d][d])

\* C1: the returned (semi-axes, rotation) describe the same ellipsoid as the
\* arguments: R'^T diag(1/s'^2) R' = R^T diag(1/s^2) R, with semi-axis i on
\* row i of the rotation.
C1_SameEllipsoid ==
    \A k \in Calls :
        SameEllipsoid(hist[k].before.gain, hist[k].before.rot,
                      hist[k].ret.gain, hist[k].ret.rot)

\* C2: refine is idempotent: the second application returns the gain and the
\* rotation the first application returned, for every input.
C2_Idempotent ==
    Len(hist) = 2 => hist[2].ret = hist[1].ret

\* C3: every column of the returned rotation is plus or minus one column of
\* the argument, each used once, and an orthonormal argument gives an
\* orthonormal result.
C3_WholeColumns ==
    \A k \in Calls :
        /\ ColumnsPermutedAndNegated(hist[k].before.rot, hist[k].ret.rot)
        /\ IsOrthonormalScaled(hist[k].before.rot)
               => IsOrthonormalScaled(hist[k].ret.rot)

\* C4: a permutation matrix P with gain g comes back as the identity with
\* gain g' where g'[i] = g[j] whenever P[i][j] = 1.
C4_PermutationToIdentity ==
    \A k \in Calls :
        IsPermutationMatrix(hist[k].before.rot) =>
            /\ hist[k].ret.rot = Identity3
            /\ \A i, j \in Idx :
                   hist[k].before.rot[i][j] = 1
                       => hist[k].ret.gain[i] = hist[k].before.gain[j]

C4_Witness ==
    /\ Len(hist) >= 1
    /\ hist[1].before.rot = Mat(<<0, 0, 1>>, <<1, 0, 0>>, <<0, 1, 0>>)
    /\ hist[1].before.gain = [i \in Idx |-> i + 1]
    /\ hist[1].ret.gain = [i \in Idx |-> IF i = 0 THEN 3 ELSE i]
    /\ hist[1].ret.rot = Identity3

\* C5: the call leaves the caller's gain and rotation arrays as they were
\* before the call.
C5_ArgumentsUnmodified ==
    Len(hist) >= 1 =>
        /\ gain = hist[Len(hist)].before.gain
        /\ rot = hist[Len(hist)].before.rot

\* C6: the returned rotation has no negative diagonal entry; the sign-flip
\* block negates exactly the columns whose diagonal entry is negative and
\* leaves gain alone; an argument with an all-negative diagonal that holds
\* the maxima comes back with every column negated and the gain unchanged.
C6_SignFlip ==
    \A k \in Calls :
        LET b == hist[k].before
            m == hist[k].mid
            r == hist[k].ret
        IN  /\ \A d \in Idx : r.rot[d][d] >= 0
            /\ r.gain = m.gain
            /\ \A c \in Idx :
                   Column(r.rot, c) = IF m.rot[c][c] < 0
                                      THEN NegVec(Column(m.rot, c))
                                      ELSE Column(m.rot, c)
            /\ (MaximaOnDiagonal(b.rot) /\ \A d \in Idx : b.rot[d][d] < 0)
                   => /\ r.gain = b.gain
                      /\ \A c \in Idx : Column(r.rot, c) = NegVec(Column(b.rot, c))

C6_Witness ==
    /\ Len(hist) >= 1
    /\ MaximaOnDiagonal(hist[1].before.rot)
    /\ \A d \in Idx : hist[1].before.rot[d][d] < 0
    /\ \A d \in Idx : hist[1].ret.rot[d][d] > 0
    /\ \E r, c \in Idx : r # c /\ hist[1].before.rot[r][c] # 0

(***************************************************************************)
(* Properties of SphereSampling.                                           *)
(***************************************************************************)
CellCount == (N - 1) * (N - 1)

AllSampled == \A i \in DOMAIN sampled : sampled[i] = 1

\* C7: a sampled flag is never reset, get_count() never decreases and the
\* number of cells stays (N-1)^2, over every update_single_point and update
\* call, those that raise SamplingError included.
C7_FlagsOnlySet ==
    [][/\ DOMAIN sampled' = DOMAIN sampled
       /\ \A i \in DOMAIN sampled : sampled[i] = 1 => sampled'[i] = 1
       /\ get_count(sampled') >= get_count(sampled)
       /\ Cardinality(DOMAIN sampled') = (N' - 1) * (N' - 1)]_vars

C7_Witness ==
    /\ N >= 3
    /\ call.op = "update"
    /\ call.raised
    /\ get_count(sampled) >= 2
    /\ ~AllSampled

\* C8: for every N > 0 get_percentage() is get_count() / (N-1)^2, a value
\* between 0 and 1, and a fresh tracker reports count 0 and percentage 0.
C8_Percentage ==
    LET p == get_percentage(sampled)
    IN  /\ p.error = "none"
        /\ p.den = CellCount
        /\ p.num = get_count(sampled)
        /\ 0 <= p.num /\ p.num <= p.den
        /\ call.op = "init" => (get_count(sampled) = 0 /\ p.num = 0)

\* C9: for N >= 2, once update() has been given one centroid per cell every
\* cell is sampled: get_count() = (N-1)^2 and get_percentage() = 1.0; each
\* centroid marks its own cell and no other.
C9_CentroidsCoverAll ==
    (N >= 2 /\ call.op = "update" /\ call.centroids) =>
        /\ ~call.raised
        /\ get_count(sampled) = CellCount
        /\ get_percentage(sampled) = [error |-> "none", num |-> CellCount, den |-> CellCount]
        /\ \A k \in DOMAIN Segments(N) :
               update_single_point(N, NewSampled(N), Centroid(Segments(N)[k]))
                   = {[sampled |-> [NewSampled(N) EXCEPT ![k] = 1], raised |-> FALSE]}

C9_Witness ==
    /\ N >= 3
    /\ call.op = "update"
    /\ call.centroids
    /\ get_count(sampled) = CellCount

\* C10: a point outside [0, pi] x [-pi, pi] makes update_single_point raise
\* SamplingError in every tracker state, and update lets the error through.
C10_OutsideRaises ==
    call.outside => call.raised

C10_Witness ==
    /\ call.op = "update"
    /\ call.outside
    /\ call.raised
    /\ get_count(sampled) >= 1

\* Every reordering of a list of points.
SeqPerms(points) ==
    {[k \in 1..Len(points) |-> points[p[k]]] :
        p \in {q \in [1..Len(points) -> 1..Len(points)] :
                  \A a, b \in 1..Len(points) : q[a] = q[b] => a = b}}

\* The flags a call can leave, over all the ways it can end.
FlagsLeft(outcomes) == {o.sampled : o \in outcomes}

\* C11: from the same tracker state, update(points) and update of any
\* permutation of points leave the same cells marked, for every list of
\* points.
C11_OrderIndependent ==
    \A points \in BatchesByN[N] :
        Len(points) <= MaxBatch =>
            \A perm \in SeqPerms(points) :
                FlagsLeft(update(N, sampled, perm)) = FlagsLeft(update(N, sampled, points))

(***************************************************************************)
(* Properties of the fit functions.                                        *)
(***************************************************************************)
\* The number of coefficients each fit hands to the optimizer.
FreeCoefficients(op) ==
    IF op = "fit_sphere" THEN 4
    ELSE IF op = "fit_ellipsoid_nonrotated" THEN 6
    ELSE 9

\* C12: in both rotated fits A_4 is symmetric, A_4[r][c] = A_4[c][r] for
\* every r and c, with g, h, i in the last column of rows 0, 1, 2 and in the
\* last row.
C12_A4Symmetric ==
    fit.op \in {"fit_ellipsoid_rotated", "fit_ellipsoid_rotated_alt"} =>
        /\ \A r, c \in Idx4 : fit.res.A_4[r][c] = fit.res.A_4[c][r]
        /\ fit.op = "fit_ellipsoid_rotated" =>
               \A k \in Idx : /\ fit.res.A_4[k][3] = Whole(fit.res.params[7 + k])
                              /\ fit.res.A_4[3][k] = Whole(fit.res.params[7 + k])

\* C13: a fit called with fewer samples than it has free coefficients fails
\* before the optimizer is invoked and returns no calibration.
C13_UnderdeterminedRejected ==
    (fit.op # "none" /\ fit.n < FreeCoefficients(fit.op)) =>
        /\ ~fit.optimizer
        /\ fit.res.outcome # "returned"

\* C14: every semi_axes vector a fit returns is strictly positive and
\* finite; a zero or negative eigenvalue (or a / G ratio) ends in an error.
C14_SemiAxesPositive ==
    fit.res.outcome = "returned" =>
        \A k \in Idx : IsPositiveFinite(fit.res.semi_axes[k])

(***************************************************************************)
(* Properties of makePaths and makeSphericalMesh.                          *)
(***************************************************************************)
\* C15: for a pair of N x N arrays makePaths returns exactly (N-1)^2 cells,
\* none for N = 1; arrays of different shapes or a grid that is not square
\* make it fail and return no cells.
C15_CellCount ==
    grid.op = "makePaths" =>
        IF Shape(grid.w) = Shape(grid.q) /\ Shape(grid.w)[1] = Shape(grid.w)[2]
        THEN /\ grid.res.outcome = "returned"
             /\ Cardinality(DOMAIN grid.res.paths)
                    = (Shape(grid.w)[1] - 1) * (Shape(grid.w)[1] - 1)
        ELSE /\ grid.res.outcome = "AssertionError"
             /\ grid.res.paths = <<>>

C15_Witness ==
    /\ grid.op = "makePaths"
    /\ Shape(grid.w) = <<3, 3>>
    /\ grid.w # grid.q
    /\ grid.res.outcome = "returned"
    /\ Cardinality(DOMAIN grid.res.paths) = 4

\* C16: the cell at list index i * (N-1) + j has the vertices (w, q) at the
\* grid positions (i, j), (i, j+1), (i+1, j+1), (i+1, j), in that order, for
\* every 0 <= i, j < N-1, and every grid quad has exactly one list index.
C16_CellVertices ==
    (grid.op = "makePaths" /\ grid.res.outcome = "returned") =>
        LET n == Shape(grid.w)[1]
            w == grid.w
            q == grid.q
            at(i, j) == <<w[i][j], q[i][j]>>
        IN  /\ \A i, j \in 0..(n - 2) :
                   /\ (i * (n - 1) + j) \in DOMAIN grid.res.paths
                   /\ grid.res.paths[i * (n - 1) + j]
                          = <<at(i, j), at(i, j + 1), at(i + 1, j + 1), at(i + 1, j)>>
            /\ \A k \in DOMAIN grid.res.paths :
                   Cardinality({ij \in (0..(n - 2)) \X (0..(n - 2)) :
                                   k = ij[1] * (n - 1) + ij[2]}) = 1

\* The result the unit test expects for its 3 x 3 grid.
C16_Witness ==
    /\ grid.op = "makePaths"
    /\ grid.w = TestW
    /\ grid.q = TestQ
    /\ grid.res.outcome = "returned"
    /\ grid.res.paths[0] = << <<0, 0>>, <<10, 0>>, <<10, 100>>, <<0, 100>> >>
    /\ grid.res.paths[1] = << <<10, 0>>, <<20, 0>>, <<20, 100>>, <<10, 100>> >>
    /\ grid.res.paths[2] = << <<0, 100>>, <<10, 100>>, <<10, 200>>, <<0, 200>> >>
    /\ grid.res.paths[3] = << <<10, 100>>, <<20, 100>>, <<20, 200>>, <<10, 200>> >>

\* The values v[0], ..., v[n-1] are evenly spaced.
EvenlySpaced(v, n) ==
    \A k \in 0..(n - 3) : v[k + 1] - v[k] = v[k + 2] - v[k + 1]

\* Column j of an array, as a vector.
ColumnOf(m, j) == [i \in DOMAIN m |-> m[i][j]]

CountEv(events, name) ==
    Cardinality({k \in DOMAIN events : events[k].ev = name})

\* Every stored sample, corrected by the current offset, has its cell marked.
TrackerFed(t) ==
    /\ t.has_params
    /\ \A k \in 1..Len(t.rows) :
           <<t.rows[k][1] - t.offset[1], t.rows[k][2] - t.offset[2],
             t.rows[k][3] - t.offset[3]>> \in t.marked

\* C18: every append_data call, from every state of the model, returns
\* after storing exactly one more row <<x, y, z, magnitude>> at the end,
\* feeding the tracker and closing the insert bracket it opened:
\* beginInsertRows once, endInsertRows (which emits rowsInserted) once after
\* it, and rowCount one larger than before.
C18_AppendCompletes ==
    [][table'.op = "append_data" =>
          /\ table'.outcome = "returned"
          /\ \E s \in Samples : table'.rows = table.rows \o <<RowOf(s)>>
          /\ rowCount(table') = rowCount(table) + 1
          /\ CountEv(table'.events, "beginInsertRows") = 1
          /\ CountEv(table'.events, "endInsertRows") = 1
          /\ table'.events[Len(table'.events)].ev = "endInsertRows"
          /\ TrackerFed(table')]_vars

\* C19: removeRows(row, count) with 0 <= row and row + count <= rowCount
\* removes exactly rows row .. row + count - 1, announces exactly that range
\* in one beginRemoveRows / endRemoveRows bracket (rowsRemoved once) and
\* returns True; with an index out of range it returns False and leaves
\* the stored rows as they were.
C19_RemoveExact ==
    [][table'.op = "removeRows" =>
          LET row == table'.row
              count == table'.count
              n == rowCount(table)
          IN  IF 0 <= row /\ row + count <= n
              THEN /\ table'.outcome = "returned" /\ table'.ret = TRUE
                   /\ table'.rows =
                          SubSeq(table.rows, 1, row) \o SubSeq(table.rows, row + count + 1, n)
                   /\ table'.events = <<Ev("beginRemoveRows", row, row + count - 1),
                                        Ev("endRemoveRows", -1, -1)>>
              ELSE /\ table'.outcome = "returned" /\ table'.ret = FALSE
                   /\ table'.rows = table.rows]_vars

(***************************************************************************)
(* Escaping                                                                *)
(***************************************************************************)
RawControlCharacters ==
    {ASCII_SOH, ASCII_STX, ASCII_ETX, ASCII_EOT, ASCII_NUL, ASCII_CR, ASCII_LF}

\* C20: for every byte string d, parse_inbound_bytes gives d back from
\* parse_outbound_bytes(d), and parse_outbound_bytes(d) holds none of the
\* raw control bytes SOH, STX, ETX, EOT, NUL, CR, LF.
C20_EscapeRoundTrip ==
    wire.op = "parse_outbound_bytes" =>
        /\ parse_inbound_bytes(wire.res) = [outcome |-> "returned", value |-> wire.d]
        /\ \A k \in 1..Len(wire.res) : wire.res[k] \notin RawControlCharacters

(***************************************************************************)
(* Diagonal dominance of the refined rotation                              *)
(***************************************************************************)
DiagonalDominant(m) ==
    \A r \in Idx : \A c \in Idx : Abs(m[r][c]) <= Abs(m[r][r])

\* C22: in the rotation refine_rotation_matrix returns, for every input,
\* each diagonal entry has the largest magnitude of its row.
C22_DiagonalDominant ==
    \A k \in 1..Len(hist) : DiagonalDominant(hist[k].ret.rot)

(***************************************************************************)
(* Sphere round trip                                                       *)
(***************************************************************************)
\* |x - v| <= 1 / 10 for a fraction x and a whole number v
WithinTenth(x, v) ==
    x.k = "fin" /\ 10 * Abs(x.n - v * x.d) <= x.d

\* |s - v| <= 1 / 10 for a root s (the square root of n / d) and a whole
\* number v >= 1
RootWithinTenth(s, v) ==
    /\ s.k = "root"
    /\ (10 * v - 1) * (10 * v - 1) * s.d <= 100 * s.n
    /\ 100 * s.n <= (10 * v + 1) * (10 * v + 1) * s.d

FirstCellOnly ==
    \A point \in Points :
       \A o \in update_single_point(N, sampled, point) :
          IF o.raised
          THEN o.sampled = sampled
          ELSE \E i \in DOMAIN sampled :
                  /\ o.sampled = [sampled EXCEPT ![i] = 1]
                  /\ TRUE \in ContainsPoint(Segments(N)[i], point)
                  /\ \A j \in DOMAIN sampled :
                        j < i => FALSE \in ContainsPoint(Segments(N)[j], point)

\* C30: an update_single_point call that raises SamplingError leaves every
\* sampled flag as it was; a call that returns sets one flag, that of the
\* first cell in list order containing the point, and changes no other, so
\* get_count() grows by at most 1.
C30_SinglePointFrame ==
    /\ []FirstCellOnly
    /\ [][call'.op = "update_single_point" =>
             IF call'.raised
             THEN sampled' = sampled
             ELSE /\ \E i \in DOMAIN sampled :
                        /\ sampled'[i] = 1
                        /\ \A j \in DOMAIN sampled :
                              j # i => sampled'[j] = sampled[j]
                  /\ get_count(sampled') <= get_count(sampled) + 1]_vars

C30_Witness ==
    /\ call.op = "update_single_point"
    /\ call.raised
    /\ get_count(sampled) >= 1
    /\ ~AllSampled

(***************************************************************************)
(* Board2GUI: the task slots                                               *)
(***************************************************************************)
ReadEnded == comms.ended /\ comms.slot = ReadSlot

\* The board was opened and set to stream, the sample size is set, no
\* read_row of this task has failed and no stop was asked of it.
ReadsUndisturbed ==
    /\ comms.streaming
    /\ comms.read_sample_size # <<>>
    /\ ~comms.failed
    /\ comms.stopped = <<>>

\* C21: when every read_row succeeds and no stop is requested, a
\* read_magnetic_calibration_data task on an opened board emits
\* data_row_received read_sample_size times, once per row read, and ends;
\* the worker thread left to run always brings a begun task to its end.
C21_AllRowsEmitted ==
    /\ [](ReadEnded /\ ReadsUndisturbed =>
             /\ comms.rows = comms.read_sample_size[1]
             /\ comms.reads = comms.rows
             /\ comms.errors = <<>>
             /\ comms.done = 1)
    /\ (comms.pc = "enter" ~> comms.ended)

C21_Witness ==
    /\ ReadEnded
    /\ ReadsUndisturbed
    /\ comms.rows = MaxSampleSize
    /\ comms.done = 1

\* C24: every call of a task slot (read_magnetic_calibration_data,
\* get_calibration, set_calibration) ends with task_running False and
\* task_done emitted exactly once, whatever the board, the outcome of
\* board.open() and the calibration type.
C24_TaskDoneOnce ==
    comms.ended => ~comms.task_running /\ comms.done = 1

\* The RetryLimitReached errors the running task has emitted.
RetryLimits == Len(SelectSeq(comms.errors, LAMBDA e : e = "RetryLimitReached"))

\* C25: in read_magnetic_calibration_data a sample gets at most read_retries
\* read_row attempts.  A failed attempt that is not the read_retries-th in
\* a row leaves the task reading, and the attempts of a new sample count
\* from zero; the read_retries-th failure in a row emits RetryLimitReached
\* through error_signal, once, after which no row is read or emitted and
\* fewer than read_sample_size rows have been emitted.
C25_RetryLimit ==
    /\ [](comms.attempt < read_retries)
    /\ [](RetryLimits <= 1)
    /\ [](RetryLimits = 1 =>
             /\ comms.pc \notin {"while", "read"}
             /\ comms.rows < comms.read_sample_size[1])
    /\ [][comms.pc = "read" /\ comms'.reads = comms.reads + 1 =>
             LET miss == comms'.rows = comms.rows
                 run == IF miss THEN comms.attempt + 1 ELSE 0
             IN  /\ ~miss => comms'.pc = "while" /\ comms'.errors = comms.errors
                 /\ miss /\ run < read_retries =>
                        /\ comms'.pc = "read"
                        /\ comms'.attempt = run
                        /\ comms'.errors = comms.errors
                 /\ miss /\ run = read_retries =>
                        /\ comms'.pc = "finally"
                        /\ comms'.errors = Append(comms.errors, "RetryLimitReached")]_vars
    /\ [][comms.pc = "while" /\ comms'.pc = "read" => comms'.attempt = 0]_vars

C25_Witness ==
    /\ ReadEnded
    /\ RetryLimits = 1
    /\ comms.rows = 1
    /\ comms.reads = 1 + (read_retries - 1) + read_retries
    /\ comms.done = 1

(***************************************************************************)
(* The window and the worker thread                                        *)
(***************************************************************************)
\* Comms tasks waiting in the worker's event queue or being run.
Tasks == Len(comms.queue) + (IF comms.pc \in {"idle", "finished"} THEN 0 ELSE 1)

\* A task is waiting or running, or its task_done is not handled yet.
Outstanding == Tasks > 0 \/ comms.pending > 0

\* C26: at most one comms task is requested or running at any time; from
\* the press that requested a read until its task_done is handled, a press
\* of the data button asks for a stop and queues no read.
C26_OneTask ==
    /\ [](Tasks <= 1)
    /\ [][Outstanding /\ comms'.presses = comms.presses + 1 =>
             comms'.queue = comms.queue /\ comms'.stop = <<TRUE>>]_vars

\* C27: a stop request made once a read task is requested, before or after
\* the worker thread has begun it, ends the task after at most one more
\* data row than had been emitted when the stop was requested.
C27_StopEndsRead ==
    ReadEnded /\ comms.stopped # <<>> => comms.rows <= comms.stopped[1] + 1

(***************************************************************************)
(* Framing                                                                 *)
(***************************************************************************)
\* SOH, STX, ETX and EOT occur in d in this order.
FramedInOrder(d) ==
    \E a, b, c, e \in 1..Len(d) :
       /\ a < b /\ b < c /\ c < e
       /\ d[a] = ASCII_SOH /\ d[b] = ASCII_STX /\ d[c] = ASCII_ETX /\ d[e] = ASCII_EOT

\* C28: retrieve_header_and_body splits the frame that send_command builds
\* from a header h and a body b back into (h, b), and answers a line that
\* does not hold SOH, STX, ETX, EOT in this order with BoardCommsError.
C28_FrameRoundTrip ==
    /\ wire.op = "send_command" =>
          retrieve_header_and_body(wire.res) =
              [outcome |-> "returned", header |-> wire.d[1], body |-> wire.d[2]]
    /\ wire.op = "retrieve_header_and_body" /\ ~FramedInOrder(wire.d) =>
          wire.res.outcome = "BoardCommsError"

(***************************************************************************)
(* calibration_reply_helper                                                *)
(***************************************************************************)
\* C29: calibration_reply_helper reads at most 30 lines.  It ends by
\* returning the values of a line that is well framed and unpacks, or,
\* after 30 lines that are not, by BoardCommsError; no line makes it end
\* with another exception or read a 31st line.
C29_ThirtyReplies ==
    /\ link.reads <= ReplyLimit
    /\ link.pc = "ended" =>
          \/ /\ link.outcome = "returned"
             /\ retrieve_header_and_body(link.reply).outcome = "returned"
             /\ Len(link.params) = link.size
          \/ /\ link.outcome = "BoardCommsError"
             /\ link.reads = ReplyLimit

====
